---- MODULE Spec2Model ----
(***************************************************************************)
(* Model of the RutasFast backend (src/backend/server.py,                  *)
(* src/backend/retention_job.py, src/backend/auth.py): per-owner sequence  *)
(* numbering of route sheets, the retention lock, the hide/purge retention *)
(* passes, annulment, the PDF cache and rate limits, the admin config, the *)
(* cookie and mobile refresh tokens, and the startup of the service with   *)
(* its readiness probe.                                                    *)
(*                                                                         *)
(* The shared store (MongoDB collections) is the state; every request      *)
(* handler is a process whose steps are its awaited store operations, so   *)
(* handlers interleave exactly where the code awaits.  A store operation   *)
(* (find_one_and_update, update_many, delete_many, insert_one) is atomic.  *)
(*                                                                         *)
(* Time is a global clock in ticks.  timedelta(minutes=5) is 5 ticks;      *)
(* relativedelta(months=m) is m * MonthTicks ticks and a calendar year is  *)
(* YearTicks ticks (both scaled down so that thresholds are crossed within *)
(* MaxClock); the rate-limit window is WindowTicks ticks and a week is     *)
(* WeekTicks ticks where those are what is measured.  Payload fields of a  *)
(* sheet that no modelled operation reads (addresses, phones, ...) and the *)
(* stats_before / stats_after / duration_ms fields of a run-log entry are  *)
(* left out.                                                               *)
(***************************************************************************)
EXTENDS Integers, Sequences, FiniteSets, TLC

VARIABLES
    clock,            \* wall clock (datetime.now), in ticks
    counters,         \* db.counters: <<user_id, year>> -> seq, one entry per document
    issued,           \* history: every <<user_id, year, seq>> an allocation returned
    app_config,       \* db.app_config document "global"
    route_sheets,     \* db.route_sheets: set of documents
    retention_locks,  \* db.retention_locks document "retention_job" (NoDoc when absent)
    retention_runs,   \* db.retention_runs: append-only sequence of run-log documents
    overran,          \* history: some lock holder was still running after its expires_at
    response,         \* the status code a retention, annul or config handler sent
                      \* in the step just taken ("none" if the step sent none)
    cr,               \* create_route_sheet requests in flight, one per creator
    ret,              \* retention passes (internal endpoint, admin endpoint, CLI job)
    an,               \* annul_route_sheet requests in flight, one per annuller
    cf,               \* admin_update_config requests in flight, one per admin
    pdf_cache,        \* db.pdf_cache: set of entries keyed (sheet_id, config_version, status)
    rate_limits,      \* db.rate_limits: how many records each (user_id, action, created_at) has
    pq,               \* PDF requests in flight (owner endpoint, admin endpoint)
    users,            \* db.users: user id -> document (token_version)
    mobile_refresh_tokens, \* db.mobile_refresh_tokens: set of documents
    held,             \* every refresh token a response has handed to a client
    rf,               \* refresh_tokens (cookie) requests, one per refresher
    mr,               \* mobile_refresh requests, one per refresher
    epochs,           \* history: per user, the epoch increments performed
    DB_CONNECTED,     \* module global: the startup ping succeeded
    INDEXES_OK,       \* module global: no critical index is missing
    MISSING_CRITICAL_INDEXES, \* module global: the critical indexes that failed
    startup,          \* startup_db and retry_critical_indexes_forever: where they are
    health            \* the last answer of the readiness probe

vars == <<clock, counters, issued, app_config, route_sheets, retention_locks,
          retention_runs, overran, response, cr, ret, an, cf,
          pdf_cache, rate_limits, pq,
          users, mobile_refresh_tokens, held, rf, mr, epochs,
          DB_CONNECTED, INDEXES_OK, MISSING_CRITICAL_INDEXES, startup, health>>

\* The startup state, which no request handler writes.
bootvars == <<DB_CONNECTED, INDEXES_OK, MISSING_CRITICAL_INDEXES, startup, health>>

\* The state of the PDF endpoints.
pdfvars == <<pdf_cache, rate_limits, pq>>

\* The state of the auth endpoints.
authvars == <<users, mobile_refresh_tokens, held, rf, mr, epochs, bootvars>>

----------------------------------------------------------------------------
(* Bounds of the model *)

MaxClock == 6
Horizon == 3
MonthTicks == 1
YearTicks == 3
NumCreators == 2
MaxRuns == 1
MaxPdfRequests == 2
MaxTokens == 3
MaxEpoch == 2
AuthHorizon == 2
NumRefreshers == 2
WeekTicks == 1
MaxVersion == 3
WindowTicks == 2
RateHorizon == 4

(* Program constants *)

PdfMaxRequests == 30
PdfRangeMaxRequests == 10
PdfWindowMinutes == 10
RefreshTokenExpireDays == 7
MobileRefreshTokenExpireDays == 30
LockTTL == 5
DefaultHideMonths == 14
DefaultPurgeMonths == 24

Users == {"u1", "u2"}
CProcs == 1..NumCreators
RProcs == {"r1", "r2"}
AProcs == {"a1", "a2"}
FProcs == {"f1", "f2"}
PProcs == {"p1", "p2"}
AuthUsers == {"u1"}
MProcs == 1..NumRefreshers
Kinds == {"internal", "admin_manual", "cli"}
HideChoices == {1, 2}
PurgeChoices == {2, 3}

NoDoc == [absent |-> TRUE]
NoTime == -1

----------------------------------------------------------------------------
(* Pure helpers *)

\* datetime.now(MADRID_TZ).year
YearOf(t) == t \div YearTicks

\* now + relativedelta(months=+m)
AddMonths(t, m) == t + m * MonthTicks

\* Mutant: numbers a sheet by counting the owner's stored sheets of the year.
IncCounterByCount(cs, k) ==
    LET n == Cardinality({s \in route_sheets : s.user_id = k[1] /\ s.year = k[2]}) + 1
    IN  IF k \in DOMAIN cs THEN [cs EXCEPT ![k] = n] ELSE cs @@ (k :> n)

\* Mutant: the upsert creates the counter at 0 instead of applying the $inc to it.
IncCounterFromZero(cs, k) ==
    IF k \in DOMAIN cs THEN [cs EXCEPT ![k] = @ + 1] ELSE cs @@ (k :> 0)

\* db.counters.find_one_and_update(filter, {"$inc": {"seq": 1}}, upsert=True)
IncCounter(cs, k) ==
    IF k \in DOMAIN cs THEN [cs EXCEPT ![k] = @ + 1] ELSE cs @@ (k :> 1)

----------------------------------------------------------------------------
(* Initial state: empty collections; startup_db has inserted the default   *)
(* AppConfig() document.                                                   *)

IdleCreator == [pc |-> "idle", user |-> "u1", input |-> "ok", year |-> 0,
                next_seq |-> 0, hide_at |-> NoTime, purge_at |-> NoTime,
                outcome |-> "none"]

IdleRun == [kind |-> "internal", dry_run |-> FALSE, pc |-> "idle", now |-> 0,
            to_hide |-> 0, to_purge |-> 0, hidden_count |-> 0, purged_count |-> 0,
            failed |-> FALSE, outcome |-> "none"]

IdleAnnul == [pc |-> "idle", user |-> "u1", sheet_id |-> 0]

\* A header field of a request body: absent (None), or a string, written as
\* its sequence of characters.
NoHeader == [given |-> FALSE, text |-> <<>>]

\* AppConfig.header_title: "HOJA DE RUTA"
DefaultHeaderTitle == <<"H">>

\* The header strings an admin sends: blank, plain, padded.
RawHeaders == {<<" ">>, <<"A">>, <<" ", "B", " ">>}

\* The retention months an admin sends, 0 for a field not given.
HideInputs == HideChoices \cup {0}

PurgeInputs == PurgeChoices \cup {0}

HeaderInputs == {NoHeader} \cup {[given |-> TRUE, text |-> t] : t \in RawHeaders}

IdleConfig == [pc |-> "idle", hide |-> 0, purge |-> 0, header |-> NoHeader]

\* The instant, one tick before the first, of the requests served earlier.
Earlier == 0 - 1

\* PDF_RATE_LIMITS
PdfActions == {"pdf_individual", "pdf_range"}

\* The fields of a rate-limit record that the count looks at.
RateKeys == [user_id : Users, action : PdfActions, created_at : Earlier..MaxClock]

\* timedelta(minutes=m), in ticks
Minutes(m) == (m * WindowTicks) \div PdfWindowMinutes

\* PDF_RATE_LIMITS[action]["max_requests"]
MaxRequests(action) ==
    IF action = "pdf_individual" THEN PdfMaxRequests ELSE PdfRangeMaxRequests

\* What the owner's profile can be set to.
PlateChoices == {"P0", "P1"}

IdlePdf == [pc |-> "idle", admin |-> FALSE, user |-> "u1", action |-> "none",
            sheet_id |-> 0, owner |-> "u1", status |-> "none", annul_reason |-> "none",
            config_version |-> 0, header |-> <<>>]

\* What a request may carry where a refresh token is expected: nothing, a
\* string that is no token of this server, or a mobile refresh token this
\* server signed of which db.mobile_refresh_tokens holds no document.
NoCookie == [type |-> "absent", jti |-> 0, sub |-> "u1", v |-> 0, exp |-> 0, epoch |-> 0]
Malformed == [type |-> "garbage", jti |-> 0, sub |-> "u1", v |-> 0, exp |-> 0, epoch |-> 0]
UnknownToken == [type |-> "mobile_refresh", jti |-> 0, sub |-> "u1", v |-> 0,
                 exp |-> MaxClock, epoch |-> 0]

NoResponse == [status |-> 0, detail |-> "none"]

IdleRefresh == [pc |-> "idle", tok |-> NoCookie, version |-> 0, new_tok |-> NoCookie,
                outcome |-> NoResponse]

\* The process has just been launched: the globals as the module sets them
\* (and as startup_db resets them), the startup handler about to ping.
IdleStartup == [pc |-> "ping", attempt |-> 0, i |-> 1, failures_critical |-> {}]

NoProbe == [status |-> 0, missing_critical_indexes |-> {}]

InitBoot ==
    /\ DB_CONNECTED = FALSE
    /\ INDEXES_OK = FALSE
    /\ MISSING_CRITICAL_INDEXES = {}
    /\ startup = IdleStartup
    /\ health = NoProbe

\* The service after a startup that found the store and created every index.
InitServing ==
    /\ DB_CONNECTED = TRUE
    /\ INDEXES_OK = TRUE
    /\ MISSING_CRITICAL_INDEXES = {}
    /\ startup = [IdleStartup EXCEPT !.pc = "serving"]
    /\ health = NoProbe

\* Registered and approved users who never logged in.
InitSessions ==
    /\ users = [u \in Users |-> [token_version |-> 0, vehicle_plate |-> "P0"]]
    /\ mobile_refresh_tokens = {}
    /\ held = {}
    /\ rf = [k \in MProcs |-> IdleRefresh]
    /\ mr = [m \in MProcs |-> IdleRefresh]
    /\ epochs = [u \in Users |-> 0]

InitAuth == InitServing /\ InitSessions

\* No PDF was ever requested.
InitPdf ==
    /\ pdf_cache = {}
    /\ rate_limits = [k \in RateKeys |-> 0]
    /\ pq = [q \in PProcs |-> IdlePdf]

Init ==
    /\ clock = 0
    /\ counters = <<>>
    /\ issued = {}
    /\ app_config = [hide_after_months |-> DefaultHideMonths,
                     purge_after_months |-> DefaultPurgeMonths,
                     pdf_config_version |-> 1,
                     header_title |-> DefaultHeaderTitle]
    /\ route_sheets = {}
    /\ retention_locks = NoDoc
    /\ retention_runs = <<>>
    /\ overran = FALSE
    /\ response = "none"
    /\ cr = [c \in CProcs |-> IdleCreator]
    /\ ret = [r \in RProcs |-> IdleRun]
    /\ an = [a \in AProcs |-> IdleAnnul]
    /\ cf = [f \in FProcs |-> IdleConfig]
    /\ InitPdf
    /\ InitAuth

\* A store as earlier creations and annulments under a shortened config can have
\* left it: sheet i was created by u1 in year 0 with seq_number i at instant 0;
\* sheet i is purged i months after it is hidden.
StoredSheets(i) ==
    {[id |-> i, user_id |-> "u1", year |-> 0, seq_number |-> i, status |-> st,
      annulled_at |-> IF st = "ANNULLED" THEN 0 ELSE NoTime,
      annul_reason |-> IF st = "ANNULLED" THEN "earlier" ELSE "none",
      user_visible |-> TRUE,
      hide_at |-> AddMonths(0, 1), purge_at |-> AddMonths(0, 1 + i)] :
        st \in {"ACTIVE", "ANNULLED"}}

InitSheets(n) ==
    /\ clock = 0
    /\ \E f \in [1..n -> UNION {StoredSheets(i) : i \in 1..n}] :
         /\ \A i \in 1..n : f[i] \in StoredSheets(i)
         /\ route_sheets = {f[i] : i \in 1..n}
    /\ counters = (<<"u1", 0>> :> n)
    /\ issued = {<<"u1", 0, i>> : i \in 1..n}
    /\ app_config = [hide_after_months |-> DefaultHideMonths,
                     purge_after_months |-> DefaultPurgeMonths,
                     pdf_config_version |-> 1,
                     header_title |-> DefaultHeaderTitle]
    /\ retention_locks = NoDoc
    /\ retention_runs = <<>>
    /\ overran = FALSE
    /\ response = "none"
    /\ cr = [c \in CProcs |-> IdleCreator]
    /\ ret = [r \in RProcs |-> IdleRun]
    /\ an = [a \in AProcs |-> IdleAnnul]
    /\ cf = [f \in FProcs |-> IdleConfig]

InitStore(n) == InitSheets(n) /\ InitPdf /\ InitAuth

\* One stored sheet, whose owner has just sent all but MaxPdfRequests of the
\* PDF requests each limit allows.
InitRate ==
    /\ InitSheets(1)
    /\ InitAuth
    /\ pdf_cache = {}
    /\ pq = [q \in PProcs |-> IdlePdf]
    /\ rate_limits =
           [k \in RateKeys |->
               IF k.user_id = "u1" /\ k.created_at = Earlier
               THEN MaxRequests(k.action) - MaxPdfRequests ELSE 0]

InitRetention == InitStore(2)

\* An empty store under the default config or one an admin has shortened.
InitNumbering ==
    /\ clock = 0
    /\ counters = <<>>
    /\ issued = {}
    /\ app_config \in {[hide_after_months |-> DefaultHideMonths,
                        purge_after_months |-> DefaultPurgeMonths,
                        pdf_config_version |-> 1,
                     header_title |-> DefaultHeaderTitle],
                       [hide_after_months |-> 1, purge_after_months |-> 2,
                        pdf_config_version |-> 1,
                     header_title |-> DefaultHeaderTitle]}
    /\ route_sheets = {}
    /\ retention_locks = NoDoc
    /\ retention_runs = <<>>
    /\ overran = FALSE
    /\ response = "none"
    /\ cr = [c \in CProcs |-> IdleCreator]
    /\ ret = [r \in RProcs |-> IdleRun]
    /\ an = [a \in AProcs |-> IdleAnnul]
    /\ cf = [f \in FProcs |-> IdleConfig]
    /\ InitPdf
    /\ InitAuth

InitLock == InitStore(1)

----------------------------------------------------------------------------
(* create_route_sheet: one-shot creators; the sheet id (uuid4) of creator c *)
(* is c.                                                                    *)

\* The request ends: what stays is the owner, the number the request drew (0 if
\* none; the response's sheet_number when the code is 200) and the status code.
Done(p, code) == [IdleCreator EXCEPT !.pc = "done", !.user = p.user, !.year = p.year,
                                     !.next_seq = p.next_seq, !.outcome = code]

\* Validations 1-3: a rejected request ends with 400 before any numbering.
CreateValidate(c) ==
    /\ cr[c].pc = "idle"
    /\ \E u \in Users, inp \in {"ok", "invalid", "bad_datetime"} :
         cr' = [cr EXCEPT ![c] =
                  IF inp = "invalid"
                  THEN Done([@ EXCEPT !.user = u], "400")
                  ELSE [@ EXCEPT !.user = u, !.input = inp, !.pc = "alloc"]]
    /\ response' = "none"
    /\ UNCHANGED <<authvars, pdfvars, clock, counters, issued, app_config, route_sheets, retention_locks, retention_runs, overran, ret, an, cf>>

\* ATOMIC NUMBERING: current_year, then the counter's find_one_and_update.
CreateAllocate(c) ==
    /\ cr[c].pc = "alloc"
    /\ LET k == <<cr[c].user, YearOf(clock)>>
           cs == IncCounter(counters, k)
       IN  /\ counters' = cs
           /\ issued' = issued \cup {<<k[1], k[2], cs[k]>>}
           /\ cr' = [cr EXCEPT ![c] = [@ EXCEPT !.pc = "config", !.year = k[2],
                                                !.next_seq = cs[k]]]
    /\ response' = "none"
    /\ UNCHANGED <<authvars, pdfvars, clock, app_config, route_sheets, retention_locks, retention_runs, overran, ret, an, cf>>

\* RETENTION DATES (config read, now, hide_at, purge_at), then the parse of
\* pickup_datetime, which ends the request with 400 on a ValueError.
CreateReadConfig(c) ==
    /\ cr[c].pc = "config"
    /\ cr' = [cr EXCEPT ![c] =
                IF cr[c].input = "bad_datetime"
                THEN Done(@, "400")
                ELSE [@ EXCEPT !.pc = "insert",
                               !.hide_at = AddMonths(clock, app_config.hide_after_months),
                               !.purge_at = AddMonths(clock, app_config.purge_after_months)]]
    /\ response' = "none"
    /\ UNCHANGED <<authvars, pdfvars, clock, counters, issued, app_config, route_sheets, retention_locks, retention_runs, overran, ret, an, cf>>

NewSheet(c) ==
    [id |-> c, user_id |-> cr[c].user, year |-> cr[c].year,
     seq_number |-> cr[c].next_seq, status |-> "ACTIVE", annulled_at |-> NoTime,
     annul_reason |-> "none",
     user_visible |-> TRUE, hide_at |-> cr[c].hide_at, purge_at |-> cr[c].purge_at]

\* The unique indexes on id and on (user_id, year, seq_number).
DuplicateKey(sheets, s) ==
    \E t \in sheets :
        \/ t.id = s.id
        \/ (t.user_id = s.user_id /\ t.year = s.year /\ t.seq_number = s.seq_number)

\* db.route_sheets.insert_one(sheet_dict)
CreateInsert(c) ==
    /\ cr[c].pc = "insert"
    /\ IF DuplicateKey(route_sheets, NewSheet(c))
       THEN /\ cr' = [cr EXCEPT ![c] = Done(@, "500")]
            /\ UNCHANGED route_sheets
       ELSE /\ route_sheets' = route_sheets \cup {NewSheet(c)}
            /\ cr' = [cr EXCEPT ![c] = Done(@, "200")]
    /\ response' = "none"
    /\ UNCHANGED <<authvars, pdfvars, clock, counters, issued, app_config, retention_locks, retention_runs, overran, ret, an, cf>>

\* A store operation of the request raises (store unavailable): the request
\* ends with 500 wherever it is, and nothing is rolled back.
CreateStoreError(c) ==
    /\ cr[c].pc \in {"alloc", "config", "insert"}
    /\ cr' = [cr EXCEPT ![c] = Done(@, "500")]
    /\ response' = "none"
    /\ UNCHANGED <<authvars, pdfvars, clock, counters, issued, app_config, route_sheets, retention_locks, retention_runs, overran, ret, an, cf>>

----------------------------------------------------------------------------
(* The retention lock: db.retention_locks document "retention_job".        *)

NewLock(now) == [locked |-> TRUE, acquired_at |-> now, expires_at |-> now + LockTTL]

\* Mutant: the filter is {"_id": ...} alone, any existing document matches.
LockFilterAlways(doc, now) == doc # NoDoc

\* Mutant: the expiry test is $lte instead of $lt.
LockFilterLte(doc, now) ==
    /\ doc # NoDoc
    /\ (doc.locked = FALSE \/ doc.expires_at <= now)

\* The filter {"_id": ..., "$or": [{"locked": False}, {"expires_at": {"$lt": now}}]}
LockFilter(doc, now) ==
    /\ doc # NoDoc
    /\ (doc.locked = FALSE \/ doc.expires_at < now)

\* find_one_and_update(filter, {"$set": ...}, return_document=AFTER, upsert=True):
\* a matching document is updated; with no document the upsert inserts one; with a
\* document that the filter rejects the upsert's insert of the same _id raises
\* DuplicateKeyError and the document stays as it is.
FindOneAndUpdateLock(doc, now) ==
    IF LockFilter(doc, now) \/ doc = NoDoc
    THEN [raised |-> FALSE, doc |-> NewLock(now), returned |-> NewLock(now)]
    ELSE [raised |-> TRUE, doc |-> doc, returned |-> NoDoc]

\* The finally block: update_one({"_id": ...}, {"$set": {"locked": False}})
ReleaseLock(doc) ==
    IF doc = NoDoc THEN NoDoc ELSE [doc EXCEPT !.locked = FALSE]

----------------------------------------------------------------------------
(* The retention queries and bulk operations on db.route_sheets.           *)

\* Mutant: the hide threshold is $lt instead of $lte.
HideQueryLt(sheets, now) == {s \in sheets : s.hide_at < now /\ s.user_visible}

\* Mutant: the hide query matches hidden sheets too.
HideQueryAnyVisible(sheets, now) == {s \in sheets : s.hide_at <= now}

\* hide_query = {"hide_at": {"$lte": now}, "user_visible": True}
HideQuery(sheets, now) == {s \in sheets : s.hide_at <= now /\ s.user_visible}

\* Mutant: the purge spares annulled sheets.
PurgeQueryActiveOnly(sheets, now) ==
    {s \in sheets : s.purge_at <= now /\ s.status = "ACTIVE"}

\* purge_query = {"purge_at": {"$lte": now}}
PurgeQuery(sheets, now) == {s \in sheets : s.purge_at <= now}

\* update_many(hide_query, {"$set": {"user_visible": False}})
UpdateManyHide(sheets, now) ==
    {IF s \in HideQuery(sheets, now) THEN [s EXCEPT !.user_visible = FALSE] ELSE s :
        s \in sheets}

\* Mutant: delete_one instead of delete_many.
DeleteOnePurge(sheets, now) ==
    IF PurgeQuery(sheets, now) = {} THEN sheets
    ELSE sheets \ {CHOOSE s \in PurgeQuery(sheets, now) : TRUE}

\* delete_many(purge_query)
DeleteManyPurge(sheets, now) == sheets \ PurgeQuery(sheets, now)

\* The internal pass between its successful acquire and the end of its finally.
InCS(p) == p.kind = "internal" /\ p.pc \in {"count_hide", "count_purge", "hide",
                                             "purge", "log", "release"}

Overrun(passes, t) == \E r \in RProcs : InCS(passes[r]) /\ t > passes[r].now + LockTTL

----------------------------------------------------------------------------
(* The owner's reads of db.route_sheets.                                   *)

\* get_route_sheets: query = {"user_id": ..., "user_visible": True}, and
\* status != ANNULLED unless include_annulled.
GetRouteSheets(sheets, u, include_annulled) ==
    {s \in sheets : /\ s.user_id = u
                    /\ s.user_visible
                    /\ (include_annulled \/ s.status # "ANNULLED")}

\* get_route_sheet: find_one({"id", "user_id", "user_visible": True}), else 404.
GetRouteSheet(sheets, id, u) ==
    LET found == {s \in sheets : s.id = id /\ s.user_id = u /\ s.user_visible}
    IN  IF found = {} THEN NoDoc ELSE CHOOSE s \in found : TRUE

----------------------------------------------------------------------------
(* Retention passes: internal_run_retention, admin_run_retention and       *)
(* run_retention_job.  now is read once, at the start of the handler.      *)

\* The handler returns with this status code: its locals are gone.
Finish(p, code) == [IdleRun EXCEPT !.outcome = code]

\* Process r moves to p; if p is a finished handler its response is sent.
Deliver(r, p) ==
    /\ ret' = [ret EXCEPT ![r] = [p EXCEPT !.outcome = "none"]]
    /\ response' = p.outcome

RetStart(r, kind, dry) ==
    /\ ret[r].pc = "idle"
    /\ kind = "internal" => ~dry
    /\ (kind # "cli" /\ ~dry) => Len(retention_runs) < MaxRuns
    /\ ret' = [ret EXCEPT ![r] =
           [IdleRun EXCEPT !.kind = kind, !.dry_run = dry, !.now = clock,
               !.pc = IF kind = "internal" THEN "acquire" ELSE "count_hide"]]
    /\ response' = "none"
    /\ UNCHANGED <<authvars, pdfvars, clock, counters, issued, app_config, route_sheets, retention_locks, retention_runs, overran, cr, an, cf>>

\* What the endpoint does with the outcome of the lock's find_one_and_update: an
\* exception leaves the handler (500); "if not lock_result or not
\* lock_result.get('locked')" answers 409; otherwise the pass begins.
AfterAcquire(p, res) ==
    IF res.raised THEN Finish(p, "500")
    ELSE IF res.returned = NoDoc \/ ~res.returned.locked THEN Finish(p, "409")
         ELSE [p EXCEPT !.pc = "count_hide"]

\* Acquire lock atomically.
RetAcquire(r) ==
    /\ ret[r].pc = "acquire"
    /\ LET res == FindOneAndUpdateLock(retention_locks, ret[r].now)
       IN  /\ retention_locks' = res.doc
           /\ Deliver(r, AfterAcquire(ret[r], res))
    /\ overran' = (overran \/ Overrun(ret', clock))
    /\ UNCHANGED <<authvars, pdfvars, clock, counters, issued, app_config, route_sheets,
                   retention_runs, cr, an, cf>>

\* to_hide = count_documents(hide_query)
RetCountHide(r) ==
    /\ ret[r].pc = "count_hide"
    /\ LET n == Cardinality(HideQuery(route_sheets, ret[r].now))
           p == ret[r]
       IN  Deliver(r, [p EXCEPT !.to_hide = n,
                         !.pc = IF p.kind = "cli" /\ n > 0 /\ ~p.dry_run
                                THEN "hide" ELSE "count_purge"])
    /\ UNCHANGED <<authvars, pdfvars, clock, counters, issued, app_config, route_sheets,
                   retention_locks, retention_runs, overran, cr, an, cf>>

\* Mutant: dry_run is not consulted once to_purge is counted.
AfterCountPurgeIgnoreDry(p) ==
    IF p.kind = "cli"
    THEN IF p.to_purge > 0 THEN [p EXCEPT !.pc = "purge"] ELSE Finish(p, "ok")
    ELSE [p EXCEPT !.pc = IF p.to_hide > 0 THEN "hide"
                           ELSE IF p.to_purge > 0 THEN "purge" ELSE "log"]

\* Where a pass goes once to_purge is counted: the CLI job purges or ends; the
\* admin endpoint ends here when dry_run; the endpoints hide, purge or log.
AfterCountPurge(p) ==
    IF p.kind = "cli"
    THEN IF p.to_purge > 0 /\ ~p.dry_run THEN [p EXCEPT !.pc = "purge"]
         ELSE Finish(p, "ok")
    ELSE IF p.dry_run THEN Finish(p, "200")
         ELSE [p EXCEPT !.pc = IF p.to_hide > 0 THEN "hide"
                                ELSE IF p.to_purge > 0 THEN "purge" ELSE "log"]

\* to_purge = count_documents(purge_query)
RetCountPurge(r) ==
    /\ ret[r].pc = "count_purge"
    /\ LET n == Cardinality(PurgeQuery(route_sheets, ret[r].now))
       IN  Deliver(r, AfterCountPurge([ret[r] EXCEPT !.to_purge = n]))
    /\ UNCHANGED <<authvars, pdfvars, clock, counters, issued, app_config, route_sheets,
                   retention_locks, retention_runs, overran, cr, an, cf>>

\* Execute HIDE; hidden_count = modified_count
RetHide(r) ==
    /\ ret[r].pc = "hide"
    /\ route_sheets' = UpdateManyHide(route_sheets, ret[r].now)
    /\ LET p == ret[r]
       IN  Deliver(r, [p EXCEPT
                  !.hidden_count = Cardinality(HideQuery(route_sheets, p.now)),
                  !.pc = IF p.kind = "cli" THEN "count_purge"
                         ELSE IF p.to_purge > 0 THEN "purge" ELSE "log"])
    /\ UNCHANGED <<authvars, pdfvars, clock, counters, issued, app_config, retention_locks,
                   retention_runs, overran, cr, an, cf>>

\* Execute PURGE; purged_count = deleted_count
RetPurge(r) ==
    /\ ret[r].pc = "purge"
    /\ route_sheets' = DeleteManyPurge(route_sheets, ret[r].now)
    /\ LET p == [ret[r] EXCEPT
                   !.purged_count = Cardinality(PurgeQuery(route_sheets, ret[r].now))]
       IN  Deliver(r, IF p.kind = "cli" THEN Finish(p, "ok") ELSE [p EXCEPT !.pc = "log"])
    /\ UNCHANGED <<authvars, pdfvars, clock, counters, issued, app_config, retention_locks,
                   retention_runs, overran, cr, an, cf>>

\* Mutant: every entry names the internal trigger.
RunLogAsInternal(p) == [run_at |-> p.now, hidden_count |-> p.hidden_count,
                        purged_count |-> p.purged_count, dry_run |-> FALSE,
                        trigger |-> "internal"]

\* run_log
RunLog(p) == [run_at |-> p.now, hidden_count |-> p.hidden_count,
              purged_count |-> p.purged_count, dry_run |-> FALSE, trigger |-> p.kind]

\* db.retention_runs.insert_one(run_log); the admin endpoint then returns.
RetLog(r) ==
    /\ ret[r].pc = "log"
    /\ retention_runs' = Append(retention_runs, RunLog(ret[r]))
    /\ Deliver(r, IF ret[r].kind = "internal" THEN [ret[r] EXCEPT !.pc = "release"]
                  ELSE Finish(ret[r], "200"))
    /\ UNCHANGED <<authvars, pdfvars, clock, counters, issued, app_config, route_sheets,
                   retention_locks, overran, cr, an, cf>>

\* Mutant: the lock is released on the success path only.
AfterErrorNoFinally(p) == Finish(p, "500")

\* A store operation inside the pass raises: the internal endpoint goes to its
\* finally block, the admin endpoint answers 500, the CLI job re-raises.
AfterError(p) ==
    IF p.kind = "internal" THEN [p EXCEPT !.pc = "release", !.failed = TRUE]
    ELSE Finish(p, "500")

RetStoreError(r) ==
    /\ ret[r].pc \in {"count_hide", "count_purge", "hide", "purge", "log"}
    /\ Deliver(r, AfterError(ret[r]))
    /\ UNCHANGED <<authvars, pdfvars, clock, counters, issued, app_config, route_sheets,
                   retention_locks, retention_runs, overran, cr, an, cf>>

\* finally: release the lock, then the response (or the 500 of the except clause).
RetRelease(r) ==
    /\ ret[r].pc = "release"
    /\ retention_locks' = ReleaseLock(retention_locks)
    /\ Deliver(r, Finish(ret[r], IF ret[r].failed THEN "500" ELSE "200"))
    /\ UNCHANGED <<authvars, pdfvars, clock, counters, issued, app_config, route_sheets,
                   retention_runs, overran, cr, an, cf>>

\* The TTL index on purge_at (expireAfterSeconds=0): the store's own sweep
\* deletes an expired sheet.
TTLSweep ==
    /\ \E s \in route_sheets :
         /\ s.purge_at <= clock
         /\ route_sheets' = route_sheets \ {s}
    /\ response' = "none"
    /\ UNCHANGED <<authvars, pdfvars, clock, counters, issued, app_config, retention_locks, retention_runs, overran, cr, ret, an, cf>>

----------------------------------------------------------------------------
(* annul_route_sheet: find_one by (id, user_id), update_one by id, then    *)
(* invalidate_pdf_cache(sheet_id, status="ACTIVE").  The reason a request  *)
(* carries is the name of its process.                                     *)

AnnulFind(a) ==
    /\ an[a].pc = "idle"
    /\ \E u \in Users, id \in CProcs :
         LET found == {s \in route_sheets : s.id = id /\ s.user_id = u}
         IN  IF found = {} THEN response' = "404" /\ UNCHANGED an
             ELSE IF \E s \in found : s.status = "ANNULLED"
                  THEN response' = "400" /\ UNCHANGED an
                  ELSE /\ an' = [an EXCEPT ![a] =
                                   [pc |-> "update", user |-> u, sheet_id |-> id]]
                       /\ response' = "none"
    /\ UNCHANGED <<authvars, pdfvars, clock, counters, issued, app_config, route_sheets,
                   retention_locks, retention_runs, overran, cr, ret, cf>>

\* Mutant: the update rewrites the document with a sheet's defaults, visible again.
AnnulSheetReplaces(sheets, id, now, reason) ==
    {IF s.id = id
     THEN [s EXCEPT !.status = "ANNULLED", !.annulled_at = now, !.annul_reason = reason,
                    !.user_visible = TRUE]
     ELSE s : s \in sheets}

\* update_one({"id": sheet_id}, {"$set": {"status": "ANNULLED",
\*                                        "annulled_at": now, "annul_reason": reason}})
AnnulSheet(sheets, id, now, reason) ==
    {IF s.id = id
     THEN [s EXCEPT !.status = "ANNULLED", !.annulled_at = now, !.annul_reason = reason]
     ELSE s : s \in sheets}

AnnulUpdate(a) ==
    /\ an[a].pc = "update"
    /\ route_sheets' = AnnulSheet(route_sheets, an[a].sheet_id, clock, a)
    /\ an' = [an EXCEPT ![a].pc = "invalidate"]
    /\ response' = "none"
    /\ UNCHANGED <<authvars, pdfvars, clock, counters, issued, app_config, retention_locks,
                   retention_runs, overran, cr, ret, cf>>

\* Mutant: the delete takes every entry of the sheet, whatever its status.
InvalidatePdfCacheAnyStatus(cache, id, status) == {e \in cache : e.sheet_id # id}

\* invalidate_pdf_cache: delete_many({"sheet_id": ..., "status": status})
InvalidatePdfCache(cache, id, status) ==
    {e \in cache : ~(e.sheet_id = id /\ e.status = status)}

\* Invalidate only ACTIVE cache, then the 200 response.
AnnulInvalidate(a) ==
    /\ an[a].pc = "invalidate"
    /\ pdf_cache' = InvalidatePdfCache(pdf_cache, an[a].sheet_id, "ACTIVE")
    /\ an' = [an EXCEPT ![a] = IdleAnnul]
    /\ response' = "200"
    /\ UNCHANGED <<authvars, rate_limits, pq, clock, counters, issued, app_config, route_sheets,
                   retention_locks, retention_runs, overran, cr, ret, cf>>

AnnulStep(a) ==
    \/ AnnulFind(a)
    \/ AnnulUpdate(a)
    \/ AnnulInvalidate(a)

----------------------------------------------------------------------------
(* get_route_sheet_pdf, admin_get_route_sheet_pdf and                      *)
(* get_route_sheets_pdf_range.  A request is a process.  The rendering     *)
(* reads the owner's user document and is part of the step that caches its *)
(* result; the bytes are what they show of the sheet, the owner's profile  *)
(* and the template.  A rate-limit record is counted while its created_at  *)
(* lies in the window that ends at the instant of the check.               *)

CacheKey(id, version, status) ==
    [sheet_id |-> id, config_version |-> version, status |-> status]

\* Mutant: the cache is looked up by sheet and config version, whatever the status.
GetCachedPdfAnyStatus(cache, id, version, status) ==
    \E e \in cache : e.sheet_id = id /\ e.config_version = version

\* Mutant: the cache is looked up by sheet and status, whatever the version.
GetCachedPdfAnyVersion(cache, id, version, status) ==
    \E e \in cache : e.sheet_id = id /\ e.status = status

\* The key fields of a cache document.
KeyOf(e) == CacheKey(e.sheet_id, e.config_version, e.status)

\* get_cached_pdf: find_one({"sheet_id", "config_version", "status"})
GetCachedPdf(cache, id, version, status) ==
    \E e \in cache : KeyOf(e) = CacheKey(id, version, status)

\* generate_route_sheet_pdf(sheet, user_data, config, driver_name): what the
\* bytes show of the sheet, of its owner's profile and of the template.
GenerateRouteSheetPdf(id, status, annul_reason, user_data, header) ==
    [sheet_id |-> id, status |-> status, annul_reason |-> annul_reason,
     vehicle_plate |-> user_data.vehicle_plate, header_title |-> header]

\* cache_pdf: update_one(key, {"$set": {..., "pdf_bytes": pdf_bytes}}, upsert=True)
CachePdf(cache, id, version, status, pdf_bytes) ==
    {e \in cache : KeyOf(e) # CacheKey(id, version, status)}
        \cup {[sheet_id |-> id, config_version |-> version, status |-> status,
                pdf_bytes |-> pdf_bytes]}

RECURSIVE SumRecords(_, _)
SumRecords(rl, keys) ==
    IF keys = {} THEN 0
    ELSE LET k == CHOOSE x \in keys : TRUE
         IN  rl[k] + SumRecords(rl, keys \ {k})

\* Mutant: the count takes every record of the user and action, old or not.
WindowCountAll(rl, u, action, now) ==
    SumRecords(rl, {k \in RateKeys : k.user_id = u /\ k.action = action})

\* count_documents({"user_id", "action", "created_at": {"$gte": window_start}})
WindowCount(rl, u, action, now) ==
    SumRecords(rl, {k \in RateKeys : /\ k.user_id = u /\ k.action = action
                                      /\ k.created_at >= now - Minutes(PdfWindowMinutes)})

\* The stored records of the user and action created since the first instant.
Recorded(rl, u, action) ==
    SumRecords(rl, {k \in RateKeys : /\ k.user_id = u /\ k.action = action
                                      /\ k.created_at >= 0})

\* Mutant: the check lets a request through when the window holds exactly the limit.
RateLimitedAbove(rl, u, action, now) == WindowCount(rl, u, action, now) > MaxRequests(action)

\* check_pdf_rate_limit raises 429
RateLimited(rl, u, action, now) == WindowCount(rl, u, action, now) >= MaxRequests(action)

\* record_pdf_request: insert_one({"user_id", "action", "created_at": now, ...})
RecordPdfRequest(rl, u, action, now) ==
    [rl EXCEPT ![[user_id |-> u, action |-> action, created_at |-> now]] = @ + 1]

\* The request is over with 429: what stays is whose it was and for which action.
Refused(u, action) == [IdlePdf EXCEPT !.user = u, !.action = action]

\* The request arrives; the owner endpoint first runs check_pdf_rate_limit.  The
\* store holds at most cap records of the owner created since the first instant.
PdfStart(q, cap) ==
    /\ pq[q].pc = "idle"
    /\ \E adm \in BOOLEAN, u \in Users, id \in CProcs :
         /\ ~adm => \/ Recorded(rate_limits, u, "pdf_individual") < cap
                     \/ RateLimited(rate_limits, u, "pdf_individual", clock)
         /\ IF ~adm /\ RateLimited(rate_limits, u, "pdf_individual", clock)
            THEN /\ pq' = [pq EXCEPT ![q] = Refused(u, "pdf_individual")]
                 /\ response' = "429"
            ELSE /\ pq' = [pq EXCEPT ![q] = [IdlePdf EXCEPT !.pc = "find", !.admin = adm,
                                                          !.user = u, !.sheet_id = id,
                                                          !.action = "pdf_individual"]]
                 /\ response' = "none"
    /\ UNCHANGED <<authvars, pdf_cache, rate_limits, clock, counters, issued, app_config,
                   route_sheets, retention_locks, retention_runs, overran, cr, ret,
                   an, cf>>

\* find_one: the owner sees only their own visible sheets, the admin every sheet.
PdfFindSheet(sheets, p) ==
    {s \in sheets : /\ s.id = p.sheet_id
                    /\ (p.admin \/ (s.user_id = p.user /\ s.user_visible))}

PdfFind(q) ==
    /\ pq[q].pc = "find"
    /\ LET found == PdfFindSheet(route_sheets, pq[q])
       IN  IF found = {}
           THEN /\ pq' = [pq EXCEPT ![q] = IdlePdf]
                /\ response' = "404"
           ELSE /\ \E sheet \in found :
                     pq' = [pq EXCEPT ![q].pc = "config", ![q].owner = sheet.user_id,
                                      ![q].status = sheet.status,
                                      ![q].annul_reason = sheet.annul_reason]
                /\ response' = "none"
    /\ UNCHANGED <<authvars, pdf_cache, rate_limits, clock, counters, issued, app_config,
                   route_sheets, retention_locks, retention_runs, overran, cr, ret,
                   an, cf>>

\* config_version = config.get("pdf_config_version", 1)
PdfConfig(q) ==
    /\ pq[q].pc = "config"
    /\ pq' = [pq EXCEPT ![q].pc = "lookup",
                        ![q].config_version = app_config.pdf_config_version,
                        ![q].header = app_config.header_title]
    /\ response' = "none"
    /\ UNCHANGED <<authvars, pdf_cache, rate_limits, clock, counters, issued, app_config,
                   route_sheets, retention_locks, retention_runs, overran, cr, ret,
                   an, cf>>

\* Check cache: a hit is answered at once by the admin endpoint and after
\* record_pdf_request by the owner endpoint; a miss goes on to render.
PdfLookup(q) ==
    /\ pq[q].pc = "lookup"
    /\ LET p == pq[q]
           hit == GetCachedPdf(pdf_cache, p.sheet_id, p.config_version, p.status)
       IN  IF hit /\ p.admin
           THEN /\ pq' = [pq EXCEPT ![q] = IdlePdf]
                /\ response' = "HIT"
           ELSE /\ pq' = [pq EXCEPT ![q].pc = IF hit THEN "record_hit" ELSE "render"]
                /\ response' = "none"
    /\ UNCHANGED <<authvars, pdf_cache, rate_limits, clock, counters, issued, app_config,
                   route_sheets, retention_locks, retention_runs, overran, cr, ret,
                   an, cf>>

\* Read the owner's user document, generate the PDF from it and from the sheet
\* and config as they were read, then cache_pdf.
PdfRender(q) ==
    /\ pq[q].pc = "render"
    /\ LET user_data == users[pq[q].owner]
           pdf_bytes == GenerateRouteSheetPdf(pq[q].sheet_id, pq[q].status,
                                              pq[q].annul_reason, user_data, pq[q].header)
       IN  pdf_cache' = CachePdf(pdf_cache, pq[q].sheet_id, pq[q].config_version,
                                 pq[q].status, pdf_bytes)
    /\ IF pq[q].admin
       THEN /\ pq' = [pq EXCEPT ![q] = IdlePdf]
            /\ response' = "MISS"
       ELSE /\ pq' = [pq EXCEPT ![q].pc = "record_miss"]
            /\ response' = "none"
    /\ UNCHANGED <<authvars, rate_limits, clock, counters, issued, app_config, route_sheets,
                   retention_locks, retention_runs, overran, cr, ret, an, cf>>

\* record_pdf_request, then the response with its X-Cache header.
PdfRecord(q) ==
    /\ pq[q].pc \in {"record_hit", "record_miss"}
    /\ rate_limits' = RecordPdfRequest(rate_limits, pq[q].user, "pdf_individual", clock)
    /\ pq' = [pq EXCEPT ![q] = IdlePdf]
    /\ response' = IF pq[q].pc = "record_hit" THEN "HIT" ELSE "MISS"
    /\ UNCHANGED <<authvars, pdf_cache, clock, counters, issued, app_config, route_sheets,
                   retention_locks, retention_runs, overran, cr, ret, an, cf>>

\* get_route_sheets_pdf_range: check_pdf_rate_limit(user, "pdf_range")
RangeStart(q, cap) ==
    /\ pq[q].pc = "idle"
    /\ \E u \in Users :
         /\ \/ Recorded(rate_limits, u, "pdf_range") < cap
            \/ RateLimited(rate_limits, u, "pdf_range", clock)
         /\ IF RateLimited(rate_limits, u, "pdf_range", clock)
            THEN /\ pq' = [pq EXCEPT ![q] = Refused(u, "pdf_range")]
                 /\ response' = "429"
            ELSE /\ pq' = [pq EXCEPT ![q] = [IdlePdf EXCEPT !.pc = "range_find", !.user = u,
                                                          !.action = "pdf_range"]]
                 /\ response' = "none"
    /\ UNCHANGED <<authvars, pdf_cache, rate_limits, clock, counters, issued, app_config,
                   route_sheets, retention_locks, retention_runs, overran, cr, ret,
                   an, cf>>

\* The owner's visible ACTIVE sheets among those picked up within the dates
\* asked for; 404 when there is none.
RangeFind(q) ==
    /\ pq[q].pc = "range_find"
    /\ \E in_range \in SUBSET CProcs :
         LET sheets == {s \in route_sheets : /\ s.user_id = pq[q].user /\ s.user_visible
                                              /\ s.status = "ACTIVE" /\ s.id \in in_range}
         IN  IF sheets = {}
             THEN /\ pq' = [pq EXCEPT ![q] = IdlePdf]
                  /\ response' = "404"
             ELSE /\ pq' = [pq EXCEPT ![q].pc = "range_record"]
                  /\ response' = "none"
    /\ UNCHANGED <<authvars, pdf_cache, rate_limits, clock, counters, issued, app_config,
                   route_sheets, retention_locks, retention_runs, overran, cr, ret,
                   an, cf>>

\* The multi-page PDF is generated (never cached), then record_pdf_request.
RangeRecord(q) ==
    /\ pq[q].pc = "range_record"
    /\ rate_limits' = RecordPdfRequest(rate_limits, pq[q].user, "pdf_range", clock)
    /\ pq' = [pq EXCEPT ![q] = IdlePdf]
    /\ response' = "200"
    /\ UNCHANGED <<authvars, pdf_cache, clock, counters, issued, app_config, route_sheets,
                   retention_locks, retention_runs, overran, cr, ret, an, cf>>

\* The TTL index on expires_at: a pass of the store's monitor deletes the
\* records whose expires_at has passed; they have left every window.
Expired(k, now) == k.created_at + Minutes(PdfWindowMinutes) < now

RateSweep ==
    /\ \E k \in RateKeys : rate_limits[k] > 0 /\ Expired(k, clock)
    /\ rate_limits' = [k \in RateKeys |-> IF Expired(k, clock) THEN 0 ELSE rate_limits[k]]
    /\ response' = "none"
    /\ UNCHANGED <<authvars, pdf_cache, pq, clock, counters, issued, app_config,
                   route_sheets, retention_locks, retention_runs, overran, cr, ret,
                   an, cf>>

\* The steps of the owner's requests under a cap of requests for each action.
PdfRateStep(q) ==
    \/ PdfStart(q, MaxPdfRequests + 1)
    \/ PdfFind(q)
    \/ PdfConfig(q)
    \/ PdfLookup(q)
    \/ PdfRender(q)
    \/ PdfRecord(q)
    \/ RangeStart(q, MaxPdfRequests + 1)
    \/ RangeFind(q)
    \/ RangeRecord(q)

\* update_me: update_one({"id": user["id"]}, {"$set": update_data})
UpdateMe(u) ==
    /\ \E plate \in PlateChoices : users' = [users EXCEPT ![u].vehicle_plate = plate]
    /\ response' = "200"
    /\ UNCHANGED <<mobile_refresh_tokens, held, rf, mr, epochs, pdfvars, clock, counters,
                   issued, app_config, route_sheets, retention_locks, retention_runs,
                   overran, cr, ret, an, cf, bootvars>>

PdfStep(q) ==
    \/ PdfStart(q, MaxPdfRequests)
    \/ PdfFind(q)
    \/ PdfConfig(q)
    \/ PdfLookup(q)
    \/ PdfRender(q)
    \/ PdfRecord(q)

----------------------------------------------------------------------------
(* admin_update_config: build update_data from the validated body, read    *)
(* the stored document and validate against it when a retention field is   *)
(* given, then update_one.  0 stands for a retention field not given.      *)

RECURSIVE StripLeft(_)
StripLeft(t) == IF t # <<>> /\ Head(t) = " " THEN StripLeft(Tail(t)) ELSE t

RECURSIVE StripRight(_)
StripRight(t) ==
    IF t # <<>> /\ t[Len(t)] = " " THEN StripRight(SubSeq(t, 1, Len(t) - 1)) ELSE t

\* AppConfigUpdate.normalize_optional_strings: v.strip(), None when empty
NormalizeOptionalStrings(v) ==
    IF ~v.given THEN NoHeader
    ELSE LET stripped == StripRight(StripLeft(v.text))
         IN  IF stripped = <<>> THEN NoHeader ELSE [given |-> TRUE, text |-> stripped]

\* The updates in flight that will increment pdf_config_version.
PendingIncrements == Cardinality({g \in FProcs : cf[g].pc = "write" /\ cf[g].header.given})

\* The request of admin f with retention months out of hides and purges and a
\* header_title out of headers: the body is validated, update_data is built
\* and, if it names a retention field, checked against the stored document.
ConfigRead(f, hides, purges, headers) ==
    /\ cf[f].pc = "idle"
    /\ \E h \in hides, p \in purges, raw \in headers :
         LET header == NormalizeOptionalStrings(raw)
             hide_months == IF h # 0 THEN h ELSE app_config.hide_after_months
             purge_months == IF p # 0 THEN p ELSE app_config.purge_after_months
         IN  /\ (h # 0 /\ p # 0) => p > h        \* AppConfigUpdate.validate_retention_months
             /\ header.given =>
                    app_config.pdf_config_version + PendingIncrements < MaxVersion
             /\ IF (h # 0 \/ p # 0)
                   /\ (purge_months <= hide_months \/ hide_months < 1 \/ purge_months < 1)
                THEN response' = "400" /\ UNCHANGED cf
                ELSE IF h = 0 /\ p = 0 /\ ~header.given
                THEN response' = "200" /\ UNCHANGED cf      \* update_data is empty
                ELSE /\ cf' = [cf EXCEPT ![f] = [pc |-> "write", hide |-> h, purge |-> p,
                                                 header |-> header]]
                     /\ response' = "none"
    /\ UNCHANGED <<authvars, pdfvars, clock, counters, issued, app_config, route_sheets,
                   retention_locks, retention_runs, overran, cr, ret, an>>

\* Mutant: the version is incremented by every update.
SetConfigAlwaysInc(doc, h, p, header) ==
    [doc EXCEPT !.hide_after_months = IF h # 0 THEN h ELSE @,
                !.purge_after_months = IF p # 0 THEN p ELSE @,
                !.header_title = IF header.given THEN header.text ELSE @,
                !.pdf_config_version = @ + 1]

\* update_one({"id": "global"}, {"$set": update_data[, "$inc": {"pdf_config_version": 1}]},
\*            upsert=True)
SetConfig(doc, h, p, header) ==
    [doc EXCEPT !.hide_after_months = IF h # 0 THEN h ELSE @,
                !.purge_after_months = IF p # 0 THEN p ELSE @,
                !.header_title = IF header.given THEN header.text ELSE @,
                !.pdf_config_version = IF header.given THEN @ + 1 ELSE @]

ConfigWrite(f) ==
    /\ cf[f].pc = "write"
    /\ app_config' = SetConfig(app_config, cf[f].hide, cf[f].purge, cf[f].header)
    /\ cf' = [cf EXCEPT ![f] = IdleConfig]
    /\ response' = "200"
    /\ UNCHANGED <<authvars, pdfvars, clock, counters, issued, route_sheets, retention_locks,
                   retention_runs, overran, cr, ret, an>>

----------------------------------------------------------------------------
(* Refresh tokens (auth.py) and the auth endpoints.  The detail strings    *)
(* are the source's, written without accents.                              *)

\* What the auth endpoints leave alone.
storevars == <<counters, issued, app_config, route_sheets, retention_locks,
               retention_runs, overran, response, cr, ret, an, cf, bootvars>>

\* timedelta(days=d), in ticks
Days(d) == (d * WeekTicks) \div 7

NoJti == 0

\* secrets.token_hex(16) never repeats: the n-th token created gets jti n.
TokensCreated ==
    Cardinality(held) + Cardinality({m \in MProcs : mr[m].pc = "update"})

\* create_refresh_token(user_id, token_version); epoch is history, not payload:
\* the epoch increments of the user performed when the token was created.
CreateRefreshToken(u, token_version, now) ==
    [type |-> "refresh", jti |-> TokensCreated + 1, sub |-> u, v |-> token_version,
     exp |-> now + Days(RefreshTokenExpireDays), epoch |-> epochs[u]]

\* create_mobile_refresh_token(user_id, token_version)
CreateMobileRefreshToken(u, token_version, now) ==
    [type |-> "mobile_refresh", jti |-> TokensCreated + 1, sub |-> u,
     v |-> token_version, exp |-> now + Days(MobileRefreshTokenExpireDays),
     epoch |-> epochs[u]]

NoPayload == [type |-> "none", jti |-> NoJti, sub |-> "u1", v |-> 0]

\* decode_token: the payload, or None when jwt.decode raises (not a token of
\* this server, or exp has passed).
DecodeToken(tok, now) ==
    IF tok.type \in {"refresh", "mobile_refresh"} /\ now <= tok.exp
    THEN [type |-> tok.type, jti |-> tok.jti, sub |-> tok.sub, v |-> tok.v]
    ELSE NoPayload

\* hash_token: sha256 of the token string
HashToken(tok) == <<"sha256", tok.type, tok.jti, tok.sub, tok.v, tok.exp>>

\* The document mobile_login and mobile_refresh insert for a token.
TokenDoc(tok) ==
    [jti |-> tok.jti, user_id |-> tok.sub, token_hash |-> HashToken(tok),
     token_version |-> tok.v, revoked |-> FALSE, replaced_by_jti |-> NoJti]

\* The refresh tokens a client can send.
Presented == held \cup {Malformed, UnknownToken}

\* The status and detail of a response.
Answer(status, detail) == [status |-> status, detail |-> detail]

\* A refresh request is over with the response (status, detail).
Over(req, tok, status, detail) ==
    [req EXCEPT !.pc = "done", !.tok = tok, !.outcome = Answer(status, detail)]

\* login: find the user, verify the password, hand out a cookie refresh token.
Login(u) ==
    /\ TokensCreated < MaxTokens
    /\ \E password_ok \in BOOLEAN :
         IF ~password_ok
         THEN UNCHANGED held        \* 401 "Credenciales incorrectas"
         ELSE held' = held \cup {CreateRefreshToken(u, users[u].token_version, clock)}
    /\ UNCHANGED <<users, mobile_refresh_tokens, rf, mr, epochs, pdfvars, clock, storevars>>

\* Mutant: no token is ever stale.
StaleEpochNever(token_version, current_version) == FALSE

\* Mutant: the comparison is reversed.
StaleEpochNewer(token_version, current_version) == token_version > current_version

\* if token_version < current_version
StaleEpoch(token_version, current_version) == token_version < current_version

\* refresh_tokens: the cookie refresh, one request of refresher k
RefreshTokens(k, tok) ==
    /\ rf[k].pc = "idle"
    /\ LET payload == DecodeToken(tok, clock)
           current_version == users[payload.sub].token_version
       IN  IF tok = NoCookie
           THEN /\ rf' = [rf EXCEPT ![k] = Over(@, tok, 401, "No hay sesion activa")]
                /\ UNCHANGED held
           ELSE IF payload = NoPayload \/ payload.type # "refresh"
           THEN /\ rf' = [rf EXCEPT ![k] = Over(@, tok, 401, "Sesion invalida o expirada")]
                /\ UNCHANGED held
           ELSE IF StaleEpoch(payload.v, current_version)
           THEN /\ rf' = [rf EXCEPT ![k] = Over(@, tok, 401,
                              "Sesion revocada. Por favor, inicia sesion de nuevo.")]
                /\ UNCHANGED held
           ELSE /\ TokensCreated < MaxTokens
                /\ held' = held \cup {CreateRefreshToken(payload.sub, current_version, clock)}
                /\ rf' = [rf EXCEPT ![k] =
                       [Over(@, tok, 200, "ok") EXCEPT
                           !.new_tok = CreateRefreshToken(payload.sub, current_version, clock)]]
    /\ UNCHANGED <<users, mobile_refresh_tokens, mr, epochs, pdfvars, clock, storevars>>

\* Mutant: the epoch passes without token_version being incremented.
IncTokenVersionNot(u) ==
    /\ epochs[u] < MaxEpoch
    /\ UNCHANGED users
    /\ epochs' = [epochs EXCEPT ![u] = @ + 1]

\* {"$inc": {"token_version": 1}}
IncTokenVersion(u) ==
    /\ users[u].token_version < MaxEpoch
    /\ users' = [users EXCEPT ![u].token_version = @ + 1]
    /\ epochs' = [epochs EXCEPT ![u] = @ + 1]

\* logout
Logout(tok) ==
    LET payload == DecodeToken(tok, clock)
    IN  /\ IF tok # NoCookie /\ payload # NoPayload /\ payload.type = "refresh"
           THEN IncTokenVersion(payload.sub)
           ELSE UNCHANGED <<users, epochs>>
        /\ UNCHANGED <<mobile_refresh_tokens, held, rf, mr, pdfvars, clock, storevars>>

\* change_password, for a caller with a valid access token
ChangePassword(u) ==
    /\ \E input \in {"ok", "wrong_current", "weak_new"} :
         IF input = "ok"
         THEN IncTokenVersion(u)
         ELSE UNCHANGED <<users, epochs>>   \* 401 or 400
    /\ UNCHANGED <<mobile_refresh_tokens, held, rf, mr, pdfvars, clock, storevars>>

\* mobile_login
MobileLogin(u) ==
    /\ TokensCreated < MaxTokens
    /\ \E password_ok \in BOOLEAN :
         IF ~password_ok
         THEN UNCHANGED <<mobile_refresh_tokens, held>>   \* 401
         ELSE LET refresh_token ==
                      CreateMobileRefreshToken(u, users[u].token_version, clock)
              IN  /\ mobile_refresh_tokens' =
                         mobile_refresh_tokens \cup {TokenDoc(refresh_token)}
                  /\ held' = held \cup {refresh_token}
    /\ UNCHANGED <<users, rf, mr, epochs, pdfvars, clock, storevars>>

\* Mutant: the filter does not look at revoked.
ClaimFilterAnyRevoked(doc, token_hash) ==
    doc.token_hash = token_hash /\ doc.replaced_by_jti = NoJti

\* {"token_hash": token_hash, "revoked": False, "replaced_by_jti": None}
ClaimFilter(doc, token_hash) ==
    /\ doc.token_hash = token_hash
    /\ ~doc.revoked
    /\ doc.replaced_by_jti = NoJti

\* Mutant: the claim does not mark the document.
MarkUsedNot(doc) == doc

\* {"$set": {"revoked": True}}
MarkUsed(doc) == [doc EXCEPT !.revoked = TRUE]

\* mobile_refresh: decode, then find_one_and_update claims the document.
MrClaim(m, tok) ==
    /\ mr[m].pc = "idle"
    /\ LET payload == DecodeToken(tok, clock)
           matching == {d \in mobile_refresh_tokens : ClaimFilter(d, HashToken(tok))}
       IN  IF payload = NoPayload \/ payload.type # "mobile_refresh"
           THEN /\ mr' = [mr EXCEPT ![m] = Over(@, tok, 401, "Token invalido o expirado")]
                /\ UNCHANGED mobile_refresh_tokens
           ELSE IF matching = {}
           THEN /\ mr' = [mr EXCEPT ![m] = Over(@, tok, 401, "Token invalido, expirado o ya utilizado")]
                /\ UNCHANGED mobile_refresh_tokens
           ELSE \E d \in matching :
                  /\ mobile_refresh_tokens' =
                         (mobile_refresh_tokens \ {d}) \cup {MarkUsed(d)}
                  /\ mr' = [mr EXCEPT ![m] = [IdleRefresh EXCEPT !.pc = "user", !.tok = tok]]
    /\ UNCHANGED <<users, held, rf, epochs, pdfvars, clock, storevars>>

\* mobile_refresh: find the user, compare the token's version with the user's.
MrUser(m) ==
    /\ mr[m].pc = "user"
    /\ LET tok == mr[m].tok
           current_version == users[tok.sub].token_version
       IN  IF StaleEpoch(tok.v, current_version)
           THEN mr' = [mr EXCEPT ![m] = Over(@, tok, 401, "Sesion revocada. Por favor, inicia sesion de nuevo.")]
           ELSE /\ mr' = [mr EXCEPT ![m].pc = "insert", ![m].version = current_version]
    /\ UNCHANGED <<users, mobile_refresh_tokens, held, rf, epochs, pdfvars, clock, storevars>>

\* mobile_refresh: insert_one of the new token's document
MrInsert(m) ==
    /\ mr[m].pc = "insert"
    /\ TokensCreated < MaxTokens
    /\ LET new_refresh_token ==
               CreateMobileRefreshToken(mr[m].tok.sub, mr[m].version, clock)
       IN  /\ mobile_refresh_tokens' =
                  mobile_refresh_tokens \cup {TokenDoc(new_refresh_token)}
           /\ mr' = [mr EXCEPT ![m].pc = "update", ![m].new_tok = new_refresh_token]
    /\ UNCHANGED <<users, held, rf, epochs, pdfvars, clock, storevars>>

\* mobile_refresh: update_one({"jti": jti}, {"$set": {"replaced_by_jti": new_jti}}),
\* then the response carries the new token.
MrUpdate(m) ==
    /\ mr[m].pc = "update"
    /\ mobile_refresh_tokens' =
           {IF d.jti = mr[m].tok.jti
            THEN [d EXCEPT !.replaced_by_jti = mr[m].new_tok.jti] ELSE d
              : d \in mobile_refresh_tokens}
    /\ held' = held \cup {mr[m].new_tok}
    /\ mr' = [mr EXCEPT ![m] = Over(@, @.tok, 200, "ok")]
    /\ UNCHANGED <<users, rf, epochs, pdfvars, clock, storevars>>

\* Mutant: the logout revokes every stored credential of the token's owner.
MobileLogoutEverywhere(tok) ==
    /\ mobile_refresh_tokens' =
           {IF d.user_id = tok.sub THEN [d EXCEPT !.revoked = TRUE] ELSE d
              : d \in mobile_refresh_tokens}
    /\ UNCHANGED <<users, held, rf, mr, epochs, pdfvars, clock, storevars>>

\* mobile_logout
MobileLogout(tok) ==
    LET payload == DecodeToken(tok, clock)
    IN  /\ IF payload # NoPayload /\ payload.type = "mobile_refresh"
           THEN mobile_refresh_tokens' =
                    {IF d.token_hash = HashToken(tok)
                     THEN [d EXCEPT !.revoked = TRUE] ELSE d
                       : d \in mobile_refresh_tokens}
           ELSE UNCHANGED mobile_refresh_tokens
        /\ UNCHANGED <<users, held, rf, mr, epochs, pdfvars, clock, storevars>>

\* The clock advances by one tick.
AuthTick ==
    /\ clock < AuthHorizon
    /\ clock' = clock + 1
    /\ UNCHANGED <<users, mobile_refresh_tokens, held, rf, mr, epochs, pdfvars, storevars>>

----------------------------------------------------------------------------
(* Time passes. *)

\* The clock advances by one tick, up to the horizon of the specification.
Tick(horizon) ==
    /\ clock < horizon
    /\ clock' = clock + 1
    /\ overran' = (overran \/ Overrun(ret, clock + 1))
    /\ response' = "none"
    /\ UNCHANGED <<authvars, pdfvars, counters, issued, app_config, route_sheets, retention_locks, retention_runs, cr, ret, an, cf>>

----------------------------------------------------------------------------

(* The processes are composed per mechanism: the full product of all       *)
(* handlers is not needed by any property below and is far too large.      *)

CreateStep(c) ==
    \/ CreateValidate(c)
    \/ CreateAllocate(c)
    \/ CreateReadConfig(c)
    \/ CreateInsert(c)
    \/ CreateStoreError(c)

\* The steps every kind of pass takes ...
RetPassStep(r) ==
    \/ RetCountHide(r)
    \/ RetCountPurge(r)
    \/ RetHide(r)
    \/ RetPurge(r)
    \/ RetStoreError(r)

\* ... and those of the internal endpoint alone.
RetLockStep(r) ==
    \/ RetAcquire(r)
    \/ RetRelease(r)

\* Retention: a pass of any kind beside a pass of the CLI job, the lock and the
\* store's TTL sweep, over a store that already holds sheets.
Next ==
    \/ \E kind \in Kinds, dry \in BOOLEAN : RetStart("r1", kind, dry)
    \/ RetStart("r2", "cli", FALSE)
    \/ \E r \in RProcs : RetPassStep(r)
    \/ RetLockStep("r1")
    \/ RetLog("r1")
    \/ TTLSweep
    \/ Tick(Horizon)

Spec == InitRetention /\ [][Next]_vars

\* The lock: internal triggers only, over a store with one sheet.
NextLock ==
    \/ \E r \in RProcs : RetStart(r, "internal", FALSE)
    \/ \E r \in RProcs : RetPassStep(r)
    \/ \E r \in RProcs : RetLockStep(r)
    \/ \E r \in RProcs : RetLog(r)
    \/ Tick(MaxClock)

SpecLock == InitLock /\ [][NextLock]_vars

\* The run log: a trigger of any path, dry run or not, beside an internal
\* trigger that contends for the lock, over a store with one sheet.
NextRunLog ==
    \/ \E kind \in Kinds, dry \in BOOLEAN : RetStart("r1", kind, dry)
    \/ RetStart("r2", "internal", FALSE)
    \/ \E r \in RProcs : RetPassStep(r)
    \/ \E r \in RProcs : RetLockStep(r)
    \/ \E r \in RProcs : RetLog(r)
    \/ Tick(Horizon)

SpecRunLog == InitLock /\ [][NextRunLog]_vars

\* Numbering: creations from an empty store, with everything that touches
\* sheets or could touch counters running beside them.
NextNumbering ==
    \/ \E c \in CProcs : CreateStep(c)
    \/ RetStart("r1", "cli", FALSE)
    \/ RetPassStep("r1")
    \/ TTLSweep
    \/ AnnulStep("a1")
    \/ Tick(Horizon)

SpecNumbering == InitNumbering /\ [][NextNumbering]_vars

\* Annulment and the PDF cache: two annul requests and two PDF requests over a
\* store with one sheet, at one instant of the clock.
InitAnnul == InitStore(1)

NextAnnul ==
    \/ \E a \in AProcs : AnnulStep(a)
    \/ \E q \in PProcs : PdfStep(q)

SpecAnnul == InitAnnul /\ [][NextAnnul]_vars

\* The PDF cache and what changes the rendering: PDF requests beside an
\* annulment, an admin updating the header and the owner updating their
\* profile, over a store with one sheet.
NextPdf ==
    \/ PdfStep("p1")
    \/ AnnulStep("a1")
    \/ ConfigRead("f1", {0}, {0}, HeaderInputs)
    \/ ConfigWrite("f1")
    \/ \E u \in AuthUsers : UpdateMe(u)

SpecPdf == InitStore(1) /\ [][NextPdf]_vars

\* Invalidation: PDF requests beside an annulment and an admin updating the
\* header, over a store with two sheets.
NextInvalidate ==
    \/ PdfStep("p1")
    \/ AnnulStep("a1")
    \/ ConfigRead("f1", {0}, {0}, {[given |-> TRUE, text |-> <<"A">>]})
    \/ ConfigWrite("f1")

SpecInvalidate == InitStore(2) /\ [][NextInvalidate]_vars

\* The rate limits: the PDF requests of the owners, one at a time, while time
\* passes and the store sweeps old records.
NextRate ==
    \/ PdfRateStep("p1")
    \/ RateSweep
    \/ Tick(RateHorizon)

SpecRate == InitRate /\ [][NextRate]_vars

\* The policy config: two admins updating it.
NextConfig ==
    \/ \E f \in FProcs : ConfigRead(f, HideInputs, PurgeInputs, HeaderInputs)
    \/ \E f \in FProcs : ConfigWrite(f)

SpecConfig == Init /\ [][NextConfig]_vars

\* The retention policy at creation: one creation beside two admins updating
\* the retention months.
NextPolicy ==
    \/ CreateStep(1)
    \/ \E f \in FProcs : ConfigRead(f, HideInputs, PurgeInputs, {NoHeader})
    \/ \E f \in FProcs : ConfigWrite(f)

SpecPolicy == Init /\ [][NextPolicy]_vars

\* The cookie session of one user: logins, cookie refreshes, logouts and
\* password changes.
NextAuth ==
    \/ \E u \in AuthUsers : Login(u)
    \/ \E k \in MProcs, tok \in Presented \cup {NoCookie} : RefreshTokens(k, tok)
    \/ \E tok \in Presented \cup {NoCookie} : Logout(tok)
    \/ \E u \in AuthUsers : ChangePassword(u)
    \/ AuthTick

SpecAuth == Init /\ [][NextAuth]_vars

\* The mobile session of one user: mobile logins, refreshes and logouts, and
\* password changes.
NextMobile ==
    \/ \E u \in AuthUsers : MobileLogin(u)
    \/ \E m \in MProcs, tok \in Presented : MrClaim(m, tok)
    \/ \E m \in MProcs : MrUser(m)
    \/ \E m \in MProcs : MrInsert(m)
    \/ \E m \in MProcs : MrUpdate(m)
    \/ \E tok \in Presented : MobileLogout(tok)
    \/ \E u \in AuthUsers : ChangePassword(u)
    \/ AuthTick

SpecMobile == Init /\ [][NextMobile]_vars

\* Both sessions of one user at one instant: cookie and mobile logins, one
\* refresh request of each kind, logouts and password changes.
NextRotate ==
    \/ \E u \in AuthUsers : Login(u)
    \/ \E u \in AuthUsers : MobileLogin(u)
    \/ \E tok \in Presented \cup {NoCookie} : RefreshTokens(1, tok)
    \/ \E tok \in Presented : MrClaim(1, tok)
    \/ MrUser(1)
    \/ MrInsert(1)
    \/ MrUpdate(1)
    \/ \E tok \in Presented \cup {NoCookie} : Logout(tok)
    \/ \E u \in AuthUsers : ChangePassword(u)

SpecRotate == Init /\ [][NextRotate]_vars

----------------------------------------------------------------------------
(* Properties of the numbering (SpecNumbering).                            *)

\* The creators whose request has drawn a number for the pair (u, y).
Allocated(u, y) ==
    {c \in CProcs : /\ cr[c].pc \in {"config", "insert", "done"}
                    /\ cr[c].next_seq > 0
                    /\ cr[c].user = u
                    /\ cr[c].year = y}

Years == 0..(Horizon \div YearTicks)

\* C1: for a pair (owner, year) whose counter did not exist, when every creation
\* that drew a number for the pair has completed successfully (200), the N
\* creations hold N pairwise distinct seq numbers and these are exactly 1..N,
\* whatever the interleaving of the requests.
C1_DistinctOneToN ==
    \A u \in Users, y \in Years :
        LET A == Allocated(u, y)
        IN  (\A c \in A : cr[c].pc = "done" /\ cr[c].outcome = "200")
                => /\ {cr[c].next_seq : c \in A} = 1..Cardinality(A)
                   /\ \A c, d \in A : cr[c].next_seq = cr[d].next_seq => c = d

\* Both creators ran for the same pair, both answered 200, and both sheets are
\* stored under the numbers 1 and 2.
C1_Witness ==
    \E u \in Users, y \in Years :
        /\ Allocated(u, y) = CProcs
        /\ \A c \in CProcs : cr[c].pc = "done" /\ cr[c].outcome = "200"
        /\ {s.seq_number : s \in {t \in route_sheets : t.user_id = u /\ t.year = y}}
               = 1..NumCreators

\* C2: in every step each existing counter stays and is either unchanged or one
\* larger, a new counter starts at 1, at most one counter changes and only in the
\* allocation step of a creation; and the number an allocation returns was never
\* returned before for that owner and year.
C2_CounterOnlyIncrements ==
    [][ /\ \A k \in DOMAIN counters :
              /\ k \in DOMAIN counters'
              /\ counters'[k] \in {counters[k], counters[k] + 1}
        /\ \A k \in DOMAIN counters' \ DOMAIN counters : counters'[k] = 1
        /\ Cardinality({k \in DOMAIN counters' :
                            k \notin DOMAIN counters \/ counters'[k] # counters[k]}) <= 1
        /\ counters' # counters =>
              \E c \in CProcs : cr[c].pc = "alloc" /\ cr'[c].pc = "config"
        /\ \A c \in CProcs :
              (cr[c].pc = "alloc" /\ cr'[c].pc = "config") =>
                  <<cr'[c].user, cr'[c].year, cr'[c].next_seq>> \notin issued
      ]_vars

\* A counter stands at 2 although no sheet of its pair is stored any more (the
\* sheets were purged, or the creations failed after drawing their number).
C2_Witness ==
    \E k \in DOMAIN counters :
        /\ counters[k] = 2
        /\ {s \in route_sheets : s.user_id = k[1] /\ s.year = k[2]} = {}
        /\ \E c \in CProcs : cr[c].pc = "done" /\ cr[c].outcome = "400" /\ cr[c].next_seq > 0

----------------------------------------------------------------------------
(* Properties of the retention lock (SpecLock).                            *)

\* Run r's find_one_and_update succeeds in this step.
Acquires(r) == ret[r].pc = "acquire" /\ ret'[r].pc = "count_hide"

\* The internal runs that are between their acquire and the end of their finally.
Holders == {r \in RProcs : InCS(ret[r])}

C4_AtMostOneHolder == Cardinality(Holders) <= 1

\* C4, amended: at every instant at most one run is in its hide/purge section as
\* lock holder, as long as no holder has still been running after the
\* expires_at of its own acquisition (five minutes after its now).
C4_AtMostOneHolderWithinTTL == ~overran => Cardinality(Holders) <= 1

\* After a first run has been logged and has released, a second run is in its
\* hide or purge step, and no run ever outlived its expiry.
C4_Witness ==
    /\ ~overran
    /\ Len(retention_runs) = 1
    /\ \E r \in RProcs : ret[r].pc \in {"hide", "purge"}

\* C6 as stated: a trigger whose acquisition is refused answers 409.
C6_RefusedWith409 ==
    [][ \A r \in RProcs :
          (ret[r].pc = "acquire" /\ ret'[r].pc = "idle") => response' = "409"
      ]_vars

\* C7: when an internal run that acquired the lock returns, after a completed
\* pass or after an error in a count, the hide, the purge or the run-log insert,
\* the lock record has locked = false.
C7_ReleasedOnReturn ==
    [][ \A r \in RProcs :
          (InCS(ret[r]) /\ ret'[r].pc = "idle")
              => (retention_locks' # NoDoc /\ ~retention_locks'.locked)
      ]_vars

\* A run that had hidden a sheet failed before its run-log insert, answered
\* 500, and the lock is released.
C7_Witness ==
    /\ response = "500"
    /\ retention_locks # NoDoc
    /\ ~retention_locks.locked
    /\ retention_runs = <<>>
    /\ \E s \in route_sheets : ~s.user_visible
    /\ \A r \in RProcs : ret[r].pc = "idle"

----------------------------------------------------------------------------
(* Properties of the retention pass (Spec).                                *)

\* Pass r executes its update_many / its delete_many in this step.
Hides(r) == ret[r].pc = "hide" /\ ret'[r].pc \in {"count_purge", "purge", "log"}

Purges(r) == ret[r].pc = "purge" /\ ret'[r].pc \in {"log", "idle"}
                                  /\ response' \in {"none", "ok"}

\* The non-dry-run pass r returns successfully in this step.
Completes(r) ==
    /\ ~ret[r].dry_run
    /\ ret[r].pc \in {"count_purge", "purge", "log", "release"}
    /\ ret'[r].pc = "idle"
    /\ response' \in {"200", "ok"}

\* One non-dry-run pass of the endpoints run alone on a store: both counts, the
\* hide if to_hide > 0, the purge if to_purge > 0, and the counts it reports.
RunPass(sheets, now) ==
    LET to_hide == Cardinality(HideQuery(sheets, now))
        to_purge == Cardinality(PurgeQuery(sheets, now))
        hidden == IF to_hide > 0 THEN UpdateManyHide(sheets, now) ELSE sheets
        purged == IF to_purge > 0 THEN DeleteManyPurge(hidden, now) ELSE hidden
    IN  [route_sheets |-> purged,
         hidden_count |-> IF to_hide > 0 THEN Cardinality(HideQuery(sheets, now)) ELSE 0,
         purged_count |-> IF to_purge > 0 THEN Cardinality(PurgeQuery(hidden, now)) ELSE 0]

\* No sheet has its hide_at or its purge_at in the interval (a, b].
NoThresholdBetween(sheets, a, b) ==
    \A s \in sheets : /\ ~(a < s.hide_at /\ s.hide_at <= b)
                      /\ ~(a < s.purge_at /\ s.purge_at <= b)

\* C5 as stated: a pass that is about to mutate route sheets is an internal run
\* and the lock record is held.
C5_MutatingPassHoldsLock ==
    \A r \in RProcs :
        ret[r].pc \in {"hide", "purge"}
            => /\ ret[r].kind = "internal"
               /\ retention_locks # NoDoc
               /\ retention_locks.locked

\* C8: the hide step of a pass evaluated at now turns every sheet with
\* hide_at <= now < purge_at that was visible into the same sheet with
\* user_visible = false (it still exists, its status is unchanged), and the
\* owner's listing and single-sheet lookup no longer return it; and when a
\* non-dry-run pass completes, no sheet with hide_at <= now is still visible.
C8_HiddenAfterPass ==
    [][ \A r \in RProcs :
          /\ Hides(r) =>
               \A s \in route_sheets :
                   (s.hide_at <= ret[r].now /\ ret[r].now < s.purge_at /\ s.user_visible)
                     => LET h == [s EXCEPT !.user_visible = FALSE]
                        IN  /\ h \in route_sheets'
                            /\ s \notin route_sheets'
                            /\ h.status = s.status
                            /\ \A t \in GetRouteSheets(route_sheets', s.user_id, TRUE) :
                                   t.id # s.id
                            /\ GetRouteSheet(route_sheets', s.id, s.user_id) = NoDoc
          /\ Completes(r) =>
               \A s \in route_sheets' : s.hide_at <= ret[r].now => ~s.user_visible
      ]_vars

\* A logged non-dry-run pass has hidden sheets, and an annulled sheet it hid is
\* still stored, hidden and annulled, before its purge_at.
C8_Witness ==
    /\ Len(retention_runs) = 1
    /\ retention_runs[1].hidden_count = 2
    /\ retention_runs[1].purged_count = 0
    /\ \E s \in route_sheets :
          /\ ~s.user_visible
          /\ s.status = "ANNULLED"
          /\ retention_runs[1].run_at < s.purge_at

\* C9: the purge step of a pass evaluated at now deletes every sheet with
\* purge_at <= now and no other, whatever its status or visibility; and when a
\* non-dry-run pass completes, no sheet with purge_at <= now is in the store.
C9_PurgedAfterPass ==
    [][ \A r \in RProcs :
          /\ Purges(r) =>
               route_sheets' = {s \in route_sheets : s.purge_at > ret[r].now}
          /\ Completes(r) =>
               \A s \in route_sheets' : s.purge_at > ret[r].now
      ]_vars

\* A logged pass found both sheets still visible, hid them and purged them: the
\* store is empty.
C9_Witness ==
    /\ Len(retention_runs) = 1
    /\ retention_runs[1].hidden_count = 2
    /\ retention_runs[1].purged_count = 2
    /\ route_sheets = {}

\* C10: when a non-dry-run pass evaluated at now completes, a second pass run
\* right after it on the store it leaves, at an instant now2 >= now with no
\* hide_at or purge_at in (now, now2], reports hidden_count = 0 and
\* purged_count = 0 and leaves the store as it is.
C10_SecondPassIsNoOp ==
    [][ \A r \in RProcs :
          Completes(r) =>
              \A now2 \in ret[r].now .. MaxClock :
                  NoThresholdBetween(route_sheets', ret[r].now, now2)
                    => RunPass(route_sheets', now2)
                         = [route_sheets |-> route_sheets',
                            hidden_count |-> 0, purged_count |-> 0]
      ]_vars

\* A pass that hid two sheets and purged one of them has just answered 200; the
\* other sheet is left, hidden.
C10_Witness ==
    /\ response = "200"
    /\ Len(retention_runs) = 1
    /\ retention_runs[1].hidden_count = 2
    /\ retention_runs[1].purged_count = 1
    /\ Cardinality(route_sheets) = 1
    /\ \A s \in route_sheets : ~s.user_visible

\* C11: no step of a dry-run pass changes route sheets, the lock record or the
\* run log, and the to_hide it counts is the number of sheets a real pass run
\* at that point would hide.
C11_DryRunChangesNothing ==
    [][ \A r \in RProcs :
          ((ret[r].dry_run \/ ret'[r].dry_run) /\ ret'[r] # ret[r])
              => /\ route_sheets' = route_sheets
                 /\ retention_locks' = retention_locks
                 /\ retention_runs' = retention_runs
                 /\ (ret[r].pc = "count_hide" /\ ret'[r].pc = "count_purge")
                       => ret'[r].to_hide
                            = RunPass(route_sheets, ret[r].now).hidden_count
      ]_vars

\* A dry-run pass of the admin endpoint has just answered 200 although a sheet
\* is due for hiding and one for purging: both are still there, nothing is logged.
C11_Witness ==
    /\ response = "200"
    /\ retention_runs = <<>>
    /\ retention_locks = NoDoc
    /\ \E s \in route_sheets : s.user_visible /\ s.hide_at <= clock
    /\ \E s \in route_sheets : s.purge_at <= clock
    /\ Cardinality(route_sheets) = 2

----------------------------------------------------------------------------
(* Properties of a sheet's life (SpecNumbering).                           *)

\* Creator c's sheet was stored (its request answered 200).
Stored(c) == cr[c].pc = "done" /\ cr[c].outcome = "200"

\* C12: no step makes a hidden sheet visible again; and a sheet that enters the
\* store carries neither the id nor the (owner, year, seq) triple of any sheet
\* that was ever stored before, purged or not.
C12_HiddenAndPurgedAreFinal ==
    [][ /\ \A s \in route_sheets, t \in route_sheets' :
              (t.id = s.id /\ ~s.user_visible) => ~t.user_visible
        /\ \A t \in route_sheets' :
              (\A s \in route_sheets : s.id # t.id)
                  => \A d \in CProcs :
                        Stored(d) =>
                            /\ t.id # d
                            /\ <<t.user_id, t.year, t.seq_number>>
                                 # <<cr[d].user, cr[d].year, cr[d].next_seq>>
      ]_vars

\* The first sheet of an owner's year was purged; the second one, created
\* later for the same owner and year, is stored, hidden, under number 2.
C12_Witness ==
    \E c, d \in CProcs :
        /\ c # d /\ Stored(c) /\ Stored(d)
        /\ cr[c].user = cr[d].user /\ cr[c].year = cr[d].year
        /\ cr[c].next_seq = 1 /\ cr[d].next_seq = 2
        /\ \A s \in route_sheets : s.id # c
        /\ \E s \in route_sheets : s.id = d /\ ~s.user_visible /\ s.seq_number = 2

----------------------------------------------------------------------------
(* Properties of annulment and of the PDF cache (SpecAnnul).               *)

\* C13 as stated: once a sheet is ANNULLED no step changes its status, its
\* annulled_at or its annul_reason.
C13_AnnulledIsFrozen ==
    [][ \A s \in route_sheets, t \in route_sheets' :
          (t.id = s.id /\ s.status = "ANNULLED")
              => /\ t.status = "ANNULLED"
                 /\ t.annulled_at = s.annulled_at
                 /\ t.annul_reason = s.annul_reason
      ]_vars

\* The cache lookup of request q is a miss / a hit in this step.
Misses(q) == pq[q].pc = "lookup" /\ pq'[q].pc = "render"

Hits(q) ==
    /\ pq[q].pc = "lookup"
    /\ \/ pq'[q].pc = "record_hit"
       \/ (pq'[q].pc = "idle" /\ response' = "HIT")

\* C19: while a sheet is ACTIVE the cache holds no ANNULLED entry for it, so
\* the first PDF request after its annulment finds none; a request that read
\* the sheet as ANNULLED misses exactly when the cache holds no ANNULLED entry
\* of its config version (an ACTIVE entry does not count) and then stores one;
\* and an ANNULLED entry is never removed, so the request after that hits.
C19_MissThenHitAfterAnnul ==
    [][ /\ \A s \in route_sheets' :
              s.status = "ACTIVE" =>
                  \A e \in pdf_cache' : ~(e.sheet_id = s.id /\ e.status = "ANNULLED")
        /\ \A e \in pdf_cache :
              e.status = "ANNULLED" => \E d \in pdf_cache' : KeyOf(d) = KeyOf(e)
        /\ \A q \in PProcs :
              (pq[q].pc = "lookup" /\ pq'[q] # pq[q] /\ pq[q].status = "ANNULLED") =>
                  IF \E e \in pdf_cache :
                         KeyOf(e) = CacheKey(pq[q].sheet_id, pq[q].config_version, "ANNULLED")
                  THEN Hits(q) ELSE Misses(q)
        /\ \A q \in PProcs :
              (pq[q].pc = "render" /\ pq'[q] # pq[q] /\ pq[q].status = "ANNULLED") =>
                  \E e \in pdf_cache' :
                      KeyOf(e) = CacheKey(pq[q].sheet_id, pq[q].config_version, "ANNULLED")
      ]_vars

\* The sheet was annulled by a request; since then the owner's first PDF request
\* rendered it and the second has just been served from the ANNULLED entry,
\* the only entry left in the cache.
C19_Witness ==
    /\ response = "HIT"
    /\ Recorded(rate_limits, "u1", "pdf_individual") = 2
    /\ \A s \in route_sheets : s.status = "ANNULLED" /\ s.annul_reason \in AProcs
    /\ {KeyOf(e) : e \in pdf_cache} = {CacheKey(1, 1, "ANNULLED")}
    /\ \A q \in PProcs : pq[q].pc = "idle"
    /\ \A a \in AProcs : an[a].pc = "idle"

\* C20 as stated: for a sheet that is ANNULLED with no annul request for it
\* still in flight, the cache holds no ACTIVE entry.
C20_NoActiveEntryAfterAnnul ==
    \A s \in route_sheets :
        (/\ s.status = "ANNULLED"
         /\ \A a \in AProcs : ~(an[a].pc \in {"update", "invalidate"}
                                /\ an[a].sheet_id = s.id))
            => \A e \in pdf_cache : ~(e.sheet_id = s.id /\ e.status = "ACTIVE")

----------------------------------------------------------------------------
(* Properties of the policy config (SpecConfig).                           *)

\* C14 as stated: in every reachable state the stored config has
\* purge_after_months > hide_after_months.
C14_PurgeAfterHide == app_config.purge_after_months > app_config.hide_after_months


----------------------------------------------------------------------------
(* Properties of the refresh credentials (SpecMobile, SpecAuth).           *)

\* The mobile refresh requests whose find_one_and_update claimed tok.
Claimed(tok) ==
    {m \in MProcs : /\ mr[m].tok = tok
                    /\ \/ mr[m].pc \in {"user", "insert", "update"}
                       \/ mr[m].pc = "done" /\ mr[m].outcome.status = 200}

\* C15: of the mobile refresh requests presenting one stored credential,
\* in sequence or concurrently, at most one claims it and succeeds, and every
\* other one that was answered was answered 401.
C15_RedeemedAtMostOnce ==
    \A tok \in held :
        tok.type = "mobile_refresh" =>
            /\ Cardinality(Claimed(tok)) <= 1
            /\ \A m \in MProcs :
                 (mr[m].pc = "done" /\ mr[m].tok = tok /\ mr[m].outcome.status # 200)
                     => mr[m].outcome.status = 401

\* Two requests presented the same credential: one succeeded, the other was
\* rejected as already used.
C15_Witness ==
    \E m1, m2 \in MProcs :
        /\ m1 # m2
        /\ mr[m1].pc = "done" /\ mr[m2].pc = "done"
        /\ mr[m1].tok = mr[m2].tok
        /\ mr[m1].tok \in held
        /\ mr[m1].outcome.status = 200
        /\ mr[m2].outcome = Answer(401, "Token invalido, expirado o ya utilizado")

\* C16: a cookie refresh presenting an unexpired cookie credential is rejected
\* when the owner's epoch was incremented (logout, password change) after the
\* credential was issued, and accepted when it was not.
C16_EpochRejectsOlder ==
    [][ \A k \in MProcs :
          (rf[k].pc = "idle" /\ rf'[k].pc = "done")
              => LET tok == rf'[k].tok
                 IN  (tok.type = "refresh" /\ clock <= tok.exp)
                         => /\ tok.epoch < epochs[tok.sub]
                                  => rf'[k].outcome.status = 401 /\ held' = held
                            /\ tok.epoch = epochs[tok.sub]
                                  => rf'[k].outcome.status = 200 ]_vars

\* After an epoch increment a credential issued before it was rejected and one
\* issued by a later login was accepted.
C16_Witness ==
    \E k1, k2 \in MProcs :
        /\ rf[k1].pc = "done" /\ rf[k2].pc = "done"
        /\ rf[k1].tok.type = "refresh" /\ rf[k2].tok.type = "refresh"
        /\ rf[k1].tok.sub = rf[k2].tok.sub
        /\ rf[k1].tok.epoch < rf[k2].tok.epoch
        /\ rf[k1].outcome.status = 401
        /\ rf[k2].outcome.status = 200

\* The failures the requests of one refresh endpoint were answered with, for
\* requests that presented something.
Failures(reqs) ==
    {reqs[k].outcome : k \in {j \in MProcs : /\ reqs[j].pc = "done"
                                              /\ reqs[j].tok # NoCookie
                                              /\ reqs[j].outcome.status # 200}}

\* C17: all failures of the cookie refresh carry one status and detail, and so
\* do all failures of the mobile refresh.
C17_OneFailureSignal ==
    /\ Cardinality(Failures(rf)) <= 1
    /\ Cardinality(Failures(mr)) <= 1

\* The stored document of a credential: none, used by a refresh, or revoked.
NeverStored(tok) == \A d \in mobile_refresh_tokens : d.token_hash # HashToken(tok)
Redeemed(tok) ==
    \E d \in mobile_refresh_tokens :
        d.token_hash = HashToken(tok) /\ d.replaced_by_jti # NoJti
Revoked(tok) ==
    \E d \in mobile_refresh_tokens : d.token_hash = HashToken(tok) /\ d.revoked

\* C18: a mobile refresh presenting a well-formed credential that was never
\* stored, was already redeemed or was revoked is answered with one and the
\* same response, and changes no document.
C18_SameInvalidResponse ==
    [][ \A m \in MProcs :
          (/\ mr[m].pc = "idle" /\ mr'[m].pc # "idle"
           /\ DecodeToken(mr'[m].tok, clock).type = "mobile_refresh"
           /\ NeverStored(mr'[m].tok) \/ Redeemed(mr'[m].tok) \/ Revoked(mr'[m].tok))
              => /\ mr'[m].pc = "done"
                 /\ mr'[m].outcome = Answer(401, "Token invalido, expirado o ya utilizado")
                 /\ mobile_refresh_tokens' = mobile_refresh_tokens ]_vars

\* One request presented a credential never stored and another one a
\* credential revoked by mobile_logout: both got the same response.
C18_Witness ==
    \E m1, m2 \in MProcs :
        /\ mr[m1].pc = "done" /\ mr[m2].pc = "done"
        /\ mr[m1].tok = UnknownToken
        /\ mr[m2].tok \in held
        /\ Revoked(mr[m2].tok) /\ ~Redeemed(mr[m2].tok)
        /\ mr[m1].outcome = mr[m2].outcome
        /\ mr[m1].outcome.status = 401


----------------------------------------------------------------------------
(* Numbers lost by failed creations (SpecNumbering).                       *)

\* Creator c drew a number and its request then failed.
FailedAfterAllocation(c) ==
    cr[c].pc = "done" /\ cr[c].outcome # "200" /\ cr[c].next_seq > 0

\* C27: the number drawn by a creation that failed afterwards stays unused: the
\* counter stays at or above it, no stored sheet carries it and no other
\* creation of that owner and year has drawn it.
C27_FailedNumberStaysUnused ==
    \A c \in CProcs :
        FailedAfterAllocation(c) =>
            /\ counters[<<cr[c].user, cr[c].year>>] >= cr[c].next_seq
            /\ \A s \in route_sheets :
                 <<s.user_id, s.year, s.seq_number>>
                     # <<cr[c].user, cr[c].year, cr[c].next_seq>>
            /\ \A d \in CProcs \ {c} :
                 cr[d].next_seq > 0 =>
                     <<cr[d].user, cr[d].year, cr[d].next_seq>>
                         # <<cr[c].user, cr[c].year, cr[c].next_seq>>

\* A creation drew number 1 and failed; a later creation of the same owner and
\* year stored its sheet under number 2.
C27_Witness ==
    \E c, d \in CProcs :
        /\ FailedAfterAllocation(c) /\ cr[c].next_seq = 1
        /\ cr[d].pc = "done" /\ cr[d].outcome = "200"
        /\ cr[d].user = cr[c].user /\ cr[d].year = cr[c].year
        /\ cr[d].next_seq = 2
        /\ \E s \in route_sheets : s.id = d /\ s.seq_number = 2


----------------------------------------------------------------------------
(* The run log (SpecRunLog).                                               *)

\* The entry a pass with locals p has to leave: its instant, the counts it
\* returns and the path that invoked it.
EntryOf(p) ==
    [run_at |-> p.now, hidden_count |-> p.hidden_count,
     purged_count |-> p.purged_count, dry_run |-> FALSE, trigger |-> p.kind]

\* C26: the run log changes only by one entry appended by a non-dry-run pass
\* of the internal or the admin endpoint, naming that path and carrying the
\* counts the pass returns; a pass of these endpoints that answers 200 without
\* being a dry run has appended its entry; dry runs and triggers turned away
\* at the lock append nothing.
C26_OneLogEntryPerPass ==
    [][ /\ retention_runs' # retention_runs =>
              \E r \in RProcs :
                  /\ ret[r].pc = "log" /\ ret'[r].pc # "log"
                  /\ ~ret[r].dry_run
                  /\ ret[r].kind \in {"internal", "admin_manual"}
                  /\ retention_runs' = Append(retention_runs, EntryOf(ret[r]))
        /\ \A r \in RProcs :
              (/\ ret[r].pc # "idle" /\ ret'[r].pc = "idle" /\ response' = "200"
               /\ ~ret[r].dry_run)
                  => \/ ret[r].pc = "log" /\ Len(retention_runs') = Len(retention_runs) + 1
                     \/ /\ ret[r].pc = "release"
                        /\ \E i \in DOMAIN retention_runs : retention_runs[i] = EntryOf(ret[r])
        /\ \A r \in RProcs :
              (/\ ret'[r] # ret[r]
               /\ \/ ret[r].dry_run
                  \/ ret[r].pc = "acquire" /\ ret'[r].pc = "idle")
                  => retention_runs' = retention_runs
      ]_vars

\* An internal pass that hid a sheet has answered 200; its entry is the log.
C26_Witness ==
    /\ response = "200"
    /\ Len(retention_runs) = 1
    /\ retention_runs[1].trigger = "internal"
    /\ retention_runs[1].hidden_count > 0
    /\ ret["r1"].pc = "idle"


----------------------------------------------------------------------------
(* Epochs and refresh credentials (SpecRotate).                            *)

\* C29: a mobile refresh whose token was issued before an epoch increment of
\* its owner (password change or cookie logout) is rejected with 401 when the
\* request compares versions, whatever the state of the token's stored
\* document, and hands out no token.
C29_EpochRejectsMobileRefresh ==
    [][ \A m \in MProcs :
          (/\ mr[m].pc = "user" /\ mr'[m] # mr[m]
           /\ mr[m].tok.epoch < epochs[mr[m].tok.sub])
              => /\ mr'[m].pc = "done"
                 /\ mr'[m].outcome.status = 401
                 /\ mr'[m].new_tok = NoCookie
                 /\ held' = held
                 /\ mobile_refresh_tokens' = mobile_refresh_tokens
      ]_vars

\* A mobile token issued at epoch 0, unexpired and with its document stored,
\* was presented after the owner's epoch changed and got 401.
C29_Witness ==
    /\ mr[1].pc = "done"
    /\ mr[1].outcome = Answer(401, "Sesion revocada. Por favor, inicia sesion de nuevo.")
    /\ mr[1].tok.type = "mobile_refresh"
    /\ mr[1].tok.epoch = 0
    /\ epochs[mr[1].tok.sub] = 1
    /\ clock <= mr[1].tok.exp
    /\ \E d \in mobile_refresh_tokens :
          d.token_hash = HashToken(mr[1].tok) /\ d.replaced_by_jti = NoJti
    /\ \E t \in held : t.type = "refresh"

\* The token's version is behind its owner's.
StaleNow(tok) == tok.v < users[tok.sub].token_version

\* The refresh requests that handed out a token.
Rotations ==
    {rf[k] : k \in {j \in MProcs : rf[j].outcome.status = 200}}
        \cup {mr[m] : m \in {j \in MProcs : mr[j].pc = "update" \/ mr[j].outcome.status = 200}}

\* C30: the token a successful refresh issues, cookie or mobile, embeds a
\* version no greater than that of the token presented, and so, once the
\* owner's version has moved past the presented token, it is past the issued
\* token as well.
C30_RefreshNeverAdvancesEpoch ==
    \A q \in Rotations :
        /\ q.new_tok.v <= q.tok.v
        /\ q.new_tok.sub = q.tok.sub
        /\ StaleNow(q.tok) => StaleNow(q.new_tok)

\* A mobile refresh read the owner's version, the owner's epoch then changed,
\* and the token the refresh went on to issue is as stale as the one presented.
C30_Witness ==
    /\ mr[1].outcome.status = 200
    /\ mr[1].tok.epoch = 0 /\ mr[1].new_tok.epoch = 1
    /\ StaleNow(mr[1].tok) /\ StaleNow(mr[1].new_tok)
    /\ mr[1].new_tok \in held


----------------------------------------------------------------------------
(* The template version (SpecConfig).                                      *)

\* C24: the update_one of an admin config update raises pdf_config_version by
\* exactly 1 when the update sets a header or legend field and leaves it as it
\* is when the update sets retention months only; nothing else changes it.
C24_VersionIncrementedByPdfFields ==
    [][ /\ \A f \in FProcs :
              (cf[f].pc = "write" /\ cf'[f].pc = "idle") =>
                  /\ cf[f].header.given =>
                        app_config'.pdf_config_version = app_config.pdf_config_version + 1
                  /\ (~cf[f].header.given /\ (cf[f].hide # 0 \/ cf[f].purge # 0)) =>
                        app_config'.pdf_config_version = app_config.pdf_config_version
        /\ (\A f \in FProcs : ~(cf[f].pc = "write" /\ cf'[f].pc = "idle")) =>
              app_config'.pdf_config_version = app_config.pdf_config_version
      ]_vars

\* One update set the header (stored stripped), the retention months were
\* changed as well, and the version has moved from 1 to 2.
C24_Witness ==
    /\ app_config.pdf_config_version = 2
    /\ app_config.header_title = <<"B">>
    /\ app_config.hide_after_months = 1
    /\ app_config.purge_after_months = 3
    /\ response = "200"
    /\ \A f \in FProcs : cf[f].pc = "idle"


----------------------------------------------------------------------------
(* The retention dates of a new sheet (SpecPolicy).                        *)

\* C28: every stored sheet has hide_at before purge_at.
C28_HideBeforePurge == \A s \in route_sheets : s.hide_at < s.purge_at


----------------------------------------------------------------------------
(* The PDF rate limits (SpecRate).                                         *)

\* The stored records of the owner and action created within the window that
\* ends now.
InWindow(u, action) ==
    SumRecords(rate_limits, {k \in RateKeys : /\ k.user_id = u /\ k.action = action
                                              /\ clock - k.created_at <= WindowTicks})

Limit(action) == IF action = "pdf_range" THEN PdfRangeMaxRequests ELSE PdfMaxRequests

\* C25: with one request at a time, an owner's PDF request gets past the check
\* when fewer than the action's limit of records of that owner and action lie
\* in the trailing window and is answered 429 when the limit lies there; every
\* served request, from the cache or rendered, adds one record at the instant
\* it is served; and no record leaves the store while it is in a window.
C25_RateLimitWindow ==
    [][ /\ \A q \in PProcs :
          /\ (pq[q].pc = "idle" /\ pq'[q] # pq[q] /\ ~pq'[q].admin) =>
                IF InWindow(pq'[q].user, pq'[q].action) < Limit(pq'[q].action)
                THEN response' # "429" /\ pq'[q].pc \in {"find", "range_find"}
                ELSE response' = "429" /\ pq'[q].pc = "idle"
          /\ (pq[q].pc \in {"record_hit", "record_miss", "range_record"} /\ pq'[q] # pq[q]) =>
                /\ response' \in {"HIT", "MISS", "200"}
                /\ rate_limits' =
                       [rate_limits EXCEPT ![[user_id |-> pq[q].user, action |-> pq[q].action,
                                              created_at |-> clock]] = @ + 1]
        /\ (\A q \in PProcs : pq'[q] # pq[q] =>
                  pq[q].pc \notin {"record_hit", "record_miss", "range_record"}) =>
              \A k \in RateKeys :
                  /\ rate_limits'[k] <= rate_limits[k]
                  /\ rate_limits'[k] < rate_limits[k] => clock - k.created_at > WindowTicks
      ]_vars

\* The owner's window holds the limit of individual requests, the last two
\* served for the one stored sheet, the second of them from the cache, and the
\* request that followed was answered 429.
C25_Witness ==
    /\ response = "429"
    /\ pq["p1"] = Refused("u1", "pdf_individual")
    /\ InWindow("u1", "pdf_individual") = PdfMaxRequests
    /\ Recorded(rate_limits, "u1", "pdf_individual") = 2
    /\ Cardinality(pdf_cache) = 1


----------------------------------------------------------------------------
(* Invalidation on annulment (SpecInvalidate).                             *)

\* C21: the invalidation step of an annulment deletes exactly the cache
\* entries of the annulled sheet whose status is ACTIVE, of every config
\* version, and leaves every other entry in place; the other steps of the
\* annulment do not touch the cache.
C21_AnnulInvalidatesActiveOnly ==
    [][ \A a \in AProcs :
          /\ (an[a].pc = "invalidate" /\ an'[a] # an[a]) =>
                pdf_cache' = {e \in pdf_cache :
                                 ~(e.sheet_id = an[a].sheet_id /\ e.status = "ACTIVE")}
          /\ (an[a].pc \in {"idle", "update"} /\ an'[a] # an[a]) =>
                pdf_cache' = pdf_cache
      ]_vars

\* The annulment of sheet 1 is about to invalidate a cache that holds ACTIVE
\* entries of the sheet for two config versions, an ANNULLED entry of the sheet
\* and an entry of sheet 2.
C21_Witness ==
    /\ an["a1"].pc = "invalidate" /\ an["a1"].sheet_id = 1
    /\ \E e1, e2 \in pdf_cache :
          /\ e1.sheet_id = 1 /\ e1.status = "ACTIVE"
          /\ e2.sheet_id = 1 /\ e2.status = "ACTIVE"
          /\ e1.config_version # e2.config_version
    /\ \E e \in pdf_cache : e.sheet_id = 1 /\ e.status = "ANNULLED"
    /\ \E e \in pdf_cache : e.sheet_id = 2


----------------------------------------------------------------------------
(* What the cache serves (SpecPdf).                                        *)

\* What the renderer produces now for the stored sheet s.
RenderedNow(s) ==
    [sheet_id |-> s.id, status |-> s.status, annul_reason |-> s.annul_reason,
     vehicle_plate |-> users[s.user_id].vehicle_plate,
     header_title |-> app_config.header_title]

\* C22 as stated: whenever a request is served from the cache, the bytes of
\* the entry it is served equal what the renderer produces at that moment from
\* the stored sheet, its owner's profile and the config.
C22_HitEqualsRender ==
    [][ \A q \in PProcs :
          Hits(q) =>
              \A e \in pdf_cache, s \in route_sheets :
                  (/\ KeyOf(e) = CacheKey(pq[q].sheet_id, pq[q].config_version, pq[q].status)
                   /\ s.id = pq[q].sheet_id)
                      => e.pdf_bytes = RenderedNow(s)
      ]_vars


\* C23: the step that increments pdf_config_version leaves the cache as it
\* is and leaves it without an entry of the new version, whatever the sheet
\* and status; and a request that looks up a version of which its sheet and
\* status have no entry is a miss, entries of other versions notwithstanding.
C23_VersionBumpMissesWithoutDeleting ==
    [][ /\ app_config'.pdf_config_version # app_config.pdf_config_version =>
              /\ pdf_cache' = pdf_cache
              /\ \A e \in pdf_cache' : e.config_version < app_config'.pdf_config_version
        /\ \A q \in PProcs :
              (/\ pq[q].pc = "lookup" /\ pq'[q] # pq[q]
               /\ \A e \in pdf_cache :
                     ~(/\ e.sheet_id = pq[q].sheet_id /\ e.status = pq[q].status
                       /\ e.config_version = pq[q].config_version))
                  => Misses(q)
      ]_vars

\* The version was incremented while the cache held the sheet's entry of
\* version 1; the next request read version 2, missed and is about to render,
\* and the entry of version 1 is still there.
C23_Witness ==
    /\ app_config.pdf_config_version = 2
    /\ pq["p1"].pc = "render" /\ pq["p1"].config_version = 2 /\ pq["p1"].sheet_id = 1
    /\ \E e \in pdf_cache :
          /\ e.sheet_id = 1 /\ e.config_version = 1 /\ e.status = pq["p1"].status
    /\ \A e \in pdf_cache : e.config_version = 1


----------------------------------------------------------------------------
(* Rejected creations (SpecNumbering).                                     *)

\* C37 as stated: a creation answered 400 drew no number, so the counter of
\* its owner and year is what it was before the request.
C37_RejectedDrawsNoNumber ==
    \A c \in CProcs :
        (cr[c].pc = "done" /\ cr[c].outcome = "400") => cr[c].next_seq = 0


----------------------------------------------------------------------------
(* The rotation chain of mobile credentials (SpecChain).                   *)

\* The sessions of both users at one instant: cookie and mobile logins, one
\* cookie refresh, two concurrent mobile refreshes and mobile logouts.
NextChain ==
    \/ \E u \in Users : Login(u)
    \/ \E tok \in Presented : RefreshTokens(1, tok)
    \/ \E u \in Users : MobileLogin(u)
    \/ \E m \in MProcs, tok \in Presented : MrClaim(m, tok)
    \/ \E m \in MProcs : MrUser(m)
    \/ \E m \in MProcs : MrInsert(m)
    \/ \E m \in MProcs : MrUpdate(m)
    \/ \E tok \in Presented : MobileLogout(tok)

SpecChain == Init /\ [][NextChain]_vars

\* C31: every stored credential with a replacement is revoked, its
\* replaced_by_jti names a stored credential of the same owner created after
\* it, and no two stored credentials name the same replacement.
C31_ChainNeverBranches ==
    /\ \A d \in mobile_refresh_tokens :
          d.replaced_by_jti # NoJti =>
             /\ d.revoked
             /\ \E n \in mobile_refresh_tokens :
                   /\ n.jti = d.replaced_by_jti
                   /\ n.jti > d.jti
                   /\ n.user_id = d.user_id
    /\ \A d, e \in mobile_refresh_tokens :
          (d.replaced_by_jti # NoJti /\ d.replaced_by_jti = e.replaced_by_jti)
             => d = e

\* Both users hold a credential, one of them was rotated while a second
\* request presenting the same credential was refused.
C31_Witness ==
    \E d, n, o \in mobile_refresh_tokens :
        /\ d.replaced_by_jti = n.jti
        /\ o.user_id # d.user_id
        /\ \E m \in MProcs :
              /\ mr[m].pc = "done"
              /\ mr[m].tok.jti = d.jti
              /\ mr[m].outcome.status = 401


\* A step of mobile_logout that found the presented credential: it is the
\* only step that changes a stored document without a refresh request moving.
LogoutStep ==
    /\ mobile_refresh_tokens' # mobile_refresh_tokens
    /\ mr' = mr
    /\ held' = held

\* The stored documents a step changed or removed.
Touched == mobile_refresh_tokens \ mobile_refresh_tokens'

\* C32: mobile logout never refuses; when it finds the credential it sets
\* revoked on that one document and leaves the users' epochs, every other
\* stored credential and every cookie credential as they were; a mobile
\* refresh presenting a revoked credential is answered 401 and changes nothing.
C32_LogoutRevokesOnlyPresented ==
    /\ [](\A tok \in Presented : ENABLED MobileLogout(tok))
    /\ [][LogoutStep =>
            /\ users' = users /\ epochs' = epochs /\ rf' = rf
            /\ \E d \in mobile_refresh_tokens :
                  /\ ~d.revoked
                  /\ Touched = {d}
                  /\ mobile_refresh_tokens' =
                         (mobile_refresh_tokens \ {d}) \cup {[d EXCEPT !.revoked = TRUE]}]_vars
    /\ [][\A m \in MProcs :
            (/\ mr[m].pc = "idle" /\ mr'[m].pc # "idle"
             /\ \E d \in mobile_refresh_tokens :
                   d.token_hash = HashToken(mr'[m].tok) /\ d.revoked)
            => /\ mr'[m].pc = "done"
               /\ mr'[m].outcome.status = 401
               /\ mobile_refresh_tokens' = mobile_refresh_tokens]_vars

\* The owner holds a cookie credential and two mobile ones; one mobile
\* credential was logged out and a refresh with it was refused, while the
\* owner's other mobile credential is still unrevoked.
C32_Witness ==
    \E d, e \in mobile_refresh_tokens :
        /\ d.user_id = e.user_id /\ d.revoked /\ ~e.revoked
        /\ d.replaced_by_jti = NoJti
        /\ \E t \in held : t.type = "refresh" /\ t.sub = d.user_id
        /\ \E m \in MProcs :
              /\ mr[m].pc = "done" /\ mr[m].outcome.status = 401
              /\ HashToken(mr[m].tok) = d.token_hash
        /\ \A m \in MProcs : mr[m].pc \in {"idle", "done"} /\ mr[m].outcome.status # 200


----------------------------------------------------------------------------
(* Stale credentials (SpecRotate).                                         *)

\* C38 as stated: a refresh, a mobile refresh or a logout presenting a
\* credential whose version is below its owner's token_version changes
\* neither the owner's token_version nor any stored credential document.
C38_StaleCredentialHasNoEffect ==
    [][\A tok \in held :
          (/\ StaleNow(tok)
           /\ \/ RefreshTokens(1, tok)
              \/ MrClaim(1, tok)
              \/ Logout(tok))
          => /\ users' = users
             /\ mobile_refresh_tokens' = mobile_refresh_tokens]_vars


----------------------------------------------------------------------------
(* Hidden and purged sheets (SpecHidden).                                  *)

\* PDF_CACHE_DAYS
PdfCacheDays == 7

\* cache_pdf stores expires_at = now + PDF_CACHE_DAYS and pdf_cache has a TTL
\* index on expires_at: an entry written at or before an instant has expired
\* one tick of the clock later, and the store has removed it.
CacheTick(horizon) ==
    /\ Days(PdfCacheDays) = 1
    /\ pdf_cache' = {}
    /\ clock < horizon
    /\ clock' = clock + 1
    /\ overran' = (overran \/ Overrun(ret, clock + 1))
    /\ response' = "none"
    /\ UNCHANGED <<authvars, rate_limits, pq, counters, issued, app_config, route_sheets,
                   retention_locks, retention_runs, cr, ret, an, cf>>

\* A stored sheet that passes of the retention job hide and purge as time
\* passes, beside an annul request and PDF requests of the owner and the admin.
NextHidden ==
    \/ RetStart("r1", "cli", FALSE)
    \/ RetPassStep("r1")
    \/ AnnulStep("a1")
    \/ PdfStep("p1")
    \/ CacheTick(Horizon)

SpecHidden == InitStore(1) /\ [][NextHidden]_vars

\* The stored sheets with the id a request names are all hidden.
HiddenId(id) ==
    /\ \E s \in route_sheets : s.id = id
    /\ \A s \in route_sheets : s.id = id => ~s.user_visible

\* C39 as stated: an owner's PDF request and an owner's annul request that
\* look up a hidden sheet are answered as if it did not exist, and no step of
\* an owner request changes a hidden sheet.
C39_HiddenSheetUntouchedByOwner ==
    [][/\ \A q \in PProcs :
             (/\ pq[q].pc = "find" /\ ~pq[q].admin /\ pq'[q] # pq[q]
              /\ HiddenId(pq[q].sheet_id))
             => response' = "404"
       /\ \A a \in AProcs :
             (an[a].pc = "idle" /\ an'[a].pc = "update")
                => ~HiddenId(an'[a].sheet_id)
       /\ (an' # an) =>
             \A s \in route_sheets : ~s.user_visible => s \in route_sheets']_vars

\* C40 as stated: the cache holds an entry only for the id of a stored sheet.
C40_NoCachedPdfOfPurgedSheet ==
    \A e \in pdf_cache : \E s \in route_sheets : s.id = e.sheet_id


----------------------------------------------------------------------------
(* Overlapping passes (SpecOverlap).                                       *)

\* An internal trigger and a manual run of the admin, both mutating and each
\* starting before the other has logged, over a store with two sheets, as time
\* passes and the store's TTL index deletes.
NextOverlap ==
    \/ retention_runs = <<>> /\ RetStart("r1", "internal", FALSE)
    \/ retention_runs = <<>> /\ RetStart("r2", "admin_manual", FALSE)
    \/ \E r \in RProcs : RetPassStep(r)
    \/ RetLockStep("r1")
    \/ \E r \in RProcs : RetLog(r)
    \/ TTLSweep
    \/ Tick(Horizon)

SpecOverlap == InitRetention /\ [][NextOverlap]_vars

\* The stores the passes can have started from.
InitialStores ==
    {{f[i] : i \in 1..2} :
        f \in {g \in [1..2 -> UNION {StoredSheets(i) : i \in 1..2}] :
                  \A i \in 1..2 : g[i] \in StoredSheets(i)}}

\* The later of the two instants the logged passes were evaluated at.
LaterRun ==
    IF retention_runs[1].run_at >= retention_runs[2].run_at
    THEN retention_runs[1].run_at ELSE retention_runs[2].run_at

\* C34: once two passes that ran side by side have both logged, the store is
\* what one pass evaluated at the later of their instants makes of the store
\* they started from (less what the TTL index has deleted since), and the
\* hidden_count of the two add up to no more than the sheets due for hiding,
\* their purged_count to no more than the sheets due for purging.
C34_OverlapEqualsSinglePass ==
    Len(retention_runs) = 2 =>
        \E S0 \in InitialStores :
            LET single == RunPass(S0, LaterRun).route_sheets
            IN  /\ route_sheets \subseteq single
                /\ \A s \in single \ route_sheets : s.purge_at <= clock
                /\ retention_runs[1].hidden_count + retention_runs[2].hidden_count
                      <= Cardinality({s \in S0 : s.hide_at <= LaterRun})
                /\ retention_runs[1].purged_count + retention_runs[2].purged_count
                      <= Cardinality({s \in S0 : s.purge_at <= LaterRun})

\* The two passes, evaluated at different instants, have both logged: each
\* purged one of the two sheets and the store is empty.
C34_Witness ==
    /\ Len(retention_runs) = 2
    /\ retention_runs[1].trigger # retention_runs[2].trigger
    /\ retention_runs[1].run_at # retention_runs[2].run_at
    /\ retention_runs[1].purged_count = 1
    /\ retention_runs[2].purged_count = 1
    /\ retention_runs[1].hidden_count + retention_runs[2].hidden_count = 2
    /\ route_sheets = {}


----------------------------------------------------------------------------
(* Overlapping PDF requests and the rate limit (SpecBurst).                *)

\* Two single-PDF requests side by side, while time passes and the store
\* sweeps old records.
NextBurst ==
    \/ \E q \in PProcs : PdfStart(q, MaxPdfRequests + 1)
    \/ \E q \in PProcs : PdfFind(q)
    \/ \E q \in PProcs : PdfConfig(q)
    \/ \E q \in PProcs : PdfLookup(q)
    \/ \E q \in PProcs : PdfRender(q)
    \/ \E q \in PProcs : PdfRecord(q)
    \/ RateSweep
    \/ Tick(WindowTicks)

SpecBurst == InitRate /\ [][NextBurst]_vars

\* The most owner requests that can be in flight together.
InFlightTogether == Cardinality(PProcs)

\* C35: the records of an owner in the trailing window never number more than
\* the limit plus the requests in flight together minus one, and an owner
\* request that arrives when the window holds the limit or more is answered
\* 429, while one that arrives below the limit gets past the check.
C35_OvershootBoundedByInFlight ==
    /\ [](\A u \in Users :
              InWindow(u, "pdf_individual") <= PdfMaxRequests + InFlightTogether - 1)
    /\ [][\A q \in PProcs :
            (pq[q].pc = "idle" /\ pq'[q] # pq[q] /\ ~pq'[q].admin) =>
               IF InWindow(pq'[q].user, "pdf_individual") >= PdfMaxRequests
               THEN response' = "429" /\ pq'[q].pc = "idle"
               ELSE response' # "429" /\ pq'[q].pc = "find"]_vars

\* Two requests of the owner passed the check side by side with one record
\* short of the limit and both were served: the window holds one more than
\* the limit.
C35_Witness ==
    /\ InWindow("u1", "pdf_individual") = PdfMaxRequests + 1
    /\ \A q \in PProcs : pq[q].pc = "idle"


----------------------------------------------------------------------------
(* startup_db, retry_critical_indexes_forever and the readiness probe      *)
(* (SpecStartup).  Whether the store answers a ping and whether it creates *)
(* an index is the environment's choice at each attempt.  Three of the     *)
(* critical indexes stand for all; the non-critical indexes and the        *)
(* app_config seeding set none of the globals the probe reads.             *)

\* max_retries
MaxRetries == 5

CriticalIndexes == <<"route_sheets_unique_user_year_seq", "counters_unique_user_year",
                     "rate_limits_ttl_expires_at">>

\* What startup_db and the background task leave alone.
appvars == <<clock, counters, issued, app_config, route_sheets, retention_locks,
             retention_runs, overran, response, cr, ret, an, cf, pdfvars,
             users, mobile_refresh_tokens, held, rf, mr, epochs>>

\* for attempt in range(max_retries): ping; on failure sleep and retry, and on
\* the last attempt re-raise: the startup handler raises and the server aborts
\* the application's startup.
Ping ==
    /\ startup.pc = "ping"
    /\ \E ok \in BOOLEAN :
         IF ok
         THEN /\ DB_CONNECTED' = TRUE
              /\ startup' = [startup EXCEPT !.pc = "indexes"]
         ELSE /\ UNCHANGED DB_CONNECTED
              /\ startup' = IF startup.attempt < MaxRetries - 1
                            THEN [startup EXCEPT !.attempt = @ + 1]
                            ELSE [startup EXCEPT !.pc = "raised"]
    /\ UNCHANGED <<INDEXES_OK, MISSING_CRITICAL_INDEXES, health, appvars>>

\* _create_index(name, coro, True, failures_critical, ...): the exception of a
\* failed creation is caught and the name appended to failures_critical.
CreateIndex ==
    /\ startup.pc \in {"indexes", "retry"}
    /\ startup.i <= Len(CriticalIndexes)
    /\ \E ok \in BOOLEAN :
         startup' = [startup EXCEPT
                        !.i = @ + 1,
                        !.failures_critical =
                            IF ok THEN @ ELSE @ \cup {CriticalIndexes[startup.i]}]
    /\ UNCHANGED <<DB_CONNECTED, INDEXES_OK, MISSING_CRITICAL_INDEXES, health, appvars>>

\* Final readiness decision, in startup_db (which then returns: the service
\* serves, and the background task runs if a critical index is missing) and at
\* the end of each round of the background task (while not INDEXES_OK).
Decide ==
    /\ startup.pc \in {"indexes", "retry"}
    /\ startup.i > Len(CriticalIndexes)
    /\ MISSING_CRITICAL_INDEXES' = startup.failures_critical
    /\ INDEXES_OK' = (startup.failures_critical = {})
    /\ startup' = [startup EXCEPT
                      !.pc = IF startup.failures_critical = {} THEN "serving" ELSE "sleep"]
    /\ UNCHANGED <<DB_CONNECTED, health, appvars>>

\* await asyncio.sleep(60), then a new round with empty failure lists
RetrySleep ==
    /\ startup.pc = "sleep"
    /\ startup' = [startup EXCEPT !.pc = "retry", !.i = 1, !.failures_critical = {}]
    /\ UNCHANGED <<DB_CONNECTED, INDEXES_OK, MISSING_CRITICAL_INDEXES, health, appvars>>

\* GET /health, served once the startup handler has returned
Readiness ==
    /\ startup.pc \in {"serving", "sleep", "retry"}
    /\ health' = [status |-> IF DB_CONNECTED /\ INDEXES_OK THEN 200 ELSE 503,
                  missing_critical_indexes |-> MISSING_CRITICAL_INDEXES]
    /\ UNCHANGED <<DB_CONNECTED, INDEXES_OK, MISSING_CRITICAL_INDEXES, startup, appvars>>

InitStartup == InitSheets(1) /\ InitPdf /\ InitSessions /\ InitBoot

NextStartup ==
    \/ Ping
    \/ CreateIndex
    \/ Decide
    \/ RetrySleep
    \/ Readiness

SpecStartup == InitStartup /\ [][NextStartup]_vars

\* C36 as stated: the startup handler never raises; whenever the probe answers
\* it answers 200 exactly when DB_CONNECTED and INDEXES_OK are both true, and
\* otherwise 503 with the missing indexes; and a round of index creation that
\* ends without a failure makes INDEXES_OK true.
C36_StartupDegradesNeverCrashes ==
    /\ [](startup.pc # "raised")
    /\ [][health' # health =>
             /\ health'.status = IF DB_CONNECTED /\ INDEXES_OK THEN 200 ELSE 503
             /\ health'.missing_critical_indexes = MISSING_CRITICAL_INDEXES]_vars
    /\ [][(startup.pc \in {"indexes", "retry"} /\ startup'.pc \in {"serving", "sleep"})
             => (INDEXES_OK' <=> startup'.pc = "serving")]_vars


----------------------------------------------------------------------------
(* A crashed lock holder (SpecCrash).                                      *)

\* The process running pass r dies inside the locked section: its finally
\* block never runs and nothing is answered.  The model lets it happen while
\* no run is logged and early enough for the clock to pass the lock's expiry.
RetCrash(r) ==
    /\ InCS(ret[r])
    /\ retention_runs = <<>>
    /\ ret[r].now + LockTTL < MaxClock
    /\ ret' = [ret EXCEPT ![r] = IdleRun]
    /\ response' = "none"
    /\ UNCHANGED <<authvars, pdfvars, clock, counters, issued, app_config, route_sheets,
                   retention_locks, retention_runs, overran, cr, an, cf>>

\* Internal triggers, one of whose runs may die holding the lock; no store
\* operation fails.
NextCrash ==
    \/ \E r \in RProcs : RetStart(r, "internal", FALSE)
    \/ \E r \in RProcs : RetAcquire(r)
    \/ \E r \in RProcs : RetCountHide(r)
    \/ \E r \in RProcs : RetCountPurge(r)
    \/ \E r \in RProcs : RetHide(r)
    \/ \E r \in RProcs : RetPurge(r)
    \/ \E r \in RProcs : RetLog(r)
    \/ \E r \in RProcs : RetRelease(r)
    \/ \E r \in RProcs : RetCrash(r)
    \/ Tick(MaxClock)

\* A handler that is running goes on running, time passes, and triggers keep
\* arriving.
FairCrash ==
    /\ WF_vars(Tick(MaxClock))
    /\ \A r \in RProcs :
          /\ WF_vars(RetStart(r, "internal", FALSE))
          /\ WF_vars(RetAcquire(r) \/ RetCountHide(r) \/ RetCountPurge(r) \/ RetHide(r)
                        \/ RetPurge(r) \/ RetLog(r) \/ RetRelease(r))

SpecCrash == InitLock /\ [][NextCrash]_vars /\ FairCrash

\* The lock record is held and no run is alive in the locked section.
Orphaned ==
    /\ retention_locks # NoDoc
    /\ retention_locks.locked
    /\ \A r \in RProcs : ~InCS(ret[r])

\* A run evaluated after instant t has logged, and the store holds no sheet
\* that was due for purging at its instant and no visible one due for hiding.
RecoveredAfter(t) ==
    \E n \in 1..Len(retention_runs) :
        /\ retention_runs[n].run_at > t
        /\ \A s \in route_sheets :
              /\ s.purge_at > retention_runs[n].run_at
              /\ s.hide_at <= retention_runs[n].run_at => ~s.user_visible

\* C33: while the lock of a dead run is held, a trigger whose now is before the
\* lock's expires_at is refused and leaves the lock and the sheets alone, and
\* one whose now is after it acquires the lock; and, with triggers arriving,
\* a run evaluated after the expiry completes and leaves nothing due.
C33_OrphanedLockExpires ==
    /\ [][\A r \in RProcs :
            (Orphaned /\ ret[r].pc = "acquire" /\ ret'[r] # ret[r]) =>
                /\ ret[r].now < retention_locks.expires_at =>
                      /\ ret'[r].pc = "idle"
                      /\ response' \in {"409", "500"}
                      /\ retention_locks' = retention_locks
                      /\ route_sheets' = route_sheets
                /\ ret[r].now > retention_locks.expires_at =>
                      /\ ret'[r].pc = "count_hide"
                      /\ retention_locks' = [locked |-> TRUE, acquired_at |-> ret[r].now,
                                             expires_at |-> ret[r].now + LockTTL]]_vars
    /\ \A t \in 0..MaxClock :
          (Orphaned /\ retention_locks.expires_at = t) ~> RecoveredAfter(t)

\* The lock of a dead run is held and a trigger that arrived before its
\* expires_at has just been refused.
C33_Witness ==
    /\ Orphaned
    /\ response = "500"
    /\ clock < retention_locks.expires_at
    /\ \E s \in route_sheets : s.hide_at <= clock /\ s.user_visible

====
